---- MODULE Spec2Model ----
(***************************************************************************)
(* Watchlight: the aggregation and anomaly-detection pipeline.             *)
(*                                                                         *)
(*   cron-aggregator        runAggregation / storeAggregatedSummaries      *)
(*   auto-anomaly-detector  runAnomalyDetection, the cooldown table,       *)
(*                          detectAnomalies, analyzeAnomaly,               *)
(*                          saveAIAnalysis, sendNotification               *)
(*   logs-, metrics-,       pollSQS and process<Kind>Message               *)
(*   trace-service                                                         *)
(*                                                                         *)
(* JavaScript numbers are modelled as exact rationals <<n, d>> (d > 0).    *)
(* A standard deviation is carried as its square, and a z-score as the     *)
(* pair (difference, squared deviation), so that every comparison the code *)
(* makes on them is decided exactly.                                       *)
(*                                                                         *)
(*   Spec          the detector service on a store of earlier snapshots    *)
(*   PipelineSpec  both services, under the fairness of the event loop     *)
(*   DetSpec       the detect functions applied to drawn snapshots         *)
(*   CooldownSpec  the cooldown table under marks and clock ticks          *)
(*   RecentSpec    getRecentSummaries on stores whose entries expire       *)
(*   AggregatorSpec  the aggregator service over a timer period            *)
(*   LifecycleSpec   startup retries, the timers and shutdown signals      *)
(*   HangSpec        a detection cycle whose provider call never returns   *)
(*   SpikeSpec       the per-service spike pass of runAggregation          *)
(*   PersistentSpec  the detector on an anomaly that every cycle detects   *)
(*   StallSpec       the detector when an awaited call may never return    *)
(*   ConsumerSpec    the logs, metrics and trace consumers of SQS          *)
(*   AvailableSpec   the logs consumer with database and queue available   *)
(***************************************************************************)
EXTENDS Integers, Sequences, FiniteSets, TLC

VARIABLES
    now,                  \* Date.now(), in ticks
    env,                  \* which of GROQ_API_KEY, OPENAI_API_KEY, NOTIFY_QUEUE_URL are set
    aggStore,             \* Redis: the aggregated:<timestamp> keys and aggregated:latest
    agg,                  \* cron-aggregator: the aggregation cycle in progress
    sched,                \* auto-anomaly-detector: startup cycle / setInterval timer
    cyc,                  \* auto-anomaly-detector: the detection cycles in flight
    recentAnomalies,      \* the cooldown table (Map<string, number>)
    aiStore,              \* Redis: the ai:analysis:<timestamp> keys and ai:analysis:latest
    aiTable,              \* PostgreSQL: the rows of ai_analysis
    notifyQueue,          \* SQS: the messages sent to NOTIFY_QUEUE_URL
    alive,                \* per service: no rejection escaped a scheduled callback
    dispatchLog,          \* history: every analysis sent to a provider, as (key, time)
    lastMark,             \* history: per key, the time of its latest markAsAnalyzed
    faults,               \* history: how many steps had an external call fail
    historicalSummaries,  \* detector input: the baseline snapshots
    currentSummary,       \* detector input: the snapshot under test
    detected,             \* results of the four detect functions, once run
    sqsQueue,             \* SQS: the messages of the queue one consumer service polls
    rawTable,             \* PostgreSQL: the rows that consumer has saved, by message
    consumer              \* logs / metrics / trace service: the pollSQS loop

detVars == <<historicalSummaries, currentSummary, detected>>

consumerVars == <<sqsQueue, rawTable, consumer>>

storeVars == <<aggStore, aiStore, aiTable, notifyQueue>>

procVars == <<now, env, aggStore, agg, sched, cyc, recentAnomalies, aiStore, aiTable,
              notifyQueue, alive, dispatchLog, lastMark, faults>>

vars == <<now, env, aggStore, agg, sched, cyc, recentAnomalies, aiStore, aiTable,
          notifyQueue, alive, dispatchLog, lastMark, faults,
          historicalSummaries, currentSummary, detected,
          sqsQueue, rawTable, consumer>>

-----------------------------------------------------------------------------
(* Bounds of the model *)

\* longest baseline handed to the detector
MaxHist == 3

\* the longest history of equal snapshots handed to the detect functions
MaxSteadyHist == 5

\* resolution of the clock: ticks per minute
TicksPerMinute == 1

\* messages in the queue a consumer service polls
MaxMessages == 2

\* deliveries of one message that are observed
MaxReceives == 2

\* ticks the clock may advance after the detector starts
MaxTime == 3

\* detection cycles that may be in flight at once
MaxCycles == 2

\* detection cycles the scheduler may start
MaxStarts == 3

\* steps in which an external call (query, provider call, write, send) may fail
MaxFaults == 1

\* aggregation cycles that may run
MaxAggCycles == 2

-----------------------------------------------------------------------------
(* Settings, with the defaults of the source *)

DETECTION_INTERVAL_MINUTES == 1

HISTORICAL_WINDOWS == 5

ANOMALY_COOLDOWN_MINUTES == 1

AGGREGATION_INTERVAL_MINUTES == 5

\* setEx expiry of the aggregated:* keys, in seconds
SummaryTtlSeconds == 3600

\* setEx expiry of the ai:analysis:* keys, in seconds
AnalysisTtlSeconds == 7200

IntervalTicks == DETECTION_INTERVAL_MINUTES * TicksPerMinute

CooldownTicks == ANOMALY_COOLDOWN_MINUTES * TicksPerMinute

AggIntervalTicks == AGGREGATION_INTERVAL_MINUTES * TicksPerMinute

TicksOfSeconds(sec) == (sec \div 60) * TicksPerMinute

-----------------------------------------------------------------------------
(* Exact rational arithmetic standing for JavaScript number arithmetic *)

Abs(x) == IF x < 0 THEN -x ELSE x

RECURSIVE Gcd(_, _)
Gcd(a, b) == IF b = 0 THEN a ELSE Gcd(b, a % b)

\* the rational n/d in lowest terms with a positive denominator
Rat(n, d) ==
    LET g == Gcd(Abs(n), Abs(d))
        s == IF d < 0 THEN -1 ELSE 1
    IN  <<(s * n) \div g, (s * d) \div g>>

RInt(n) == <<n, 1>>

\* the least common multiple of two positive denominators
Lcm(a, b) == (a \div Gcd(a, b)) * b

RAdd(a, b) ==
    LET l == Lcm(a[2], b[2])
    IN  Rat(a[1] * (l \div a[2]) + b[1] * (l \div b[2]), l)

RSub(a, b) == RAdd(a, <<-b[1], b[2]>>)

\* cross-cancel before multiplying to keep the intermediate products small
RMul(a, b) ==
    LET g1 == Gcd(Abs(a[1]), b[2])
        g2 == Gcd(Abs(b[1]), a[2])
    IN  IF a[1] = 0 \/ b[1] = 0 THEN <<0, 1>>
        ELSE <<(a[1] \div g1) * (b[1] \div g2), (a[2] \div g2) * (b[2] \div g1)>>

\* a / b for b # 0
RDiv(a, b) == RMul(a, IF b[1] < 0 THEN <<-b[2], -b[1]>> ELSE <<b[2], b[1]>>)

RLess(a, b) ==
    LET l == Lcm(a[2], b[2])
    IN  a[1] * (l \div a[2]) < b[1] * (l \div b[2])

RGreater(a, b) == RLess(b, a)

RECURSIVE RSum(_)
RSum(values) ==
    IF values = <<>> THEN <<0, 1>> ELSE RAdd(Head(values), RSum(Tail(values)))

\* calculateMean: 0 for an empty list, else sum / length
calculateMean(values) ==
    IF Len(values) = 0 THEN <<0, 1>>
    ELSE RDiv(RSum(values), RInt(Len(values)))

calculateStdDev_Sample(values, mean) ==
    IF Len(values) <= 1 THEN [sq |-> <<0, 1>>]
    ELSE LET squaredDiffs ==
                 [i \in 1..Len(values) |->
                     RMul(RSub(values[i], mean), RSub(values[i], mean))]
         IN  [sq |-> RDiv(RSum(squaredDiffs), RInt(Len(values) - 1))]

\* calculateStdDev: sqrt of the mean squared difference (population form,
\* divides by N).  The result is carried as its square.
calculateStdDev(values, mean) ==
    IF Len(values) = 0 THEN [sq |-> <<0, 1>>]
    ELSE LET squaredDiffs ==
                 [i \in 1..Len(values) |->
                     RMul(RSub(values[i], mean), RSub(values[i], mean))]
         IN  [sq |-> calculateMean(squaredDiffs)]

calculateZScore_UnitSpread(value, mean, stdDev) ==
    IF stdDev.sq[1] = 0 THEN [diff |-> RSub(value, mean), sq |-> <<1, 1>>]
    ELSE [diff |-> RSub(value, mean), sq |-> stdDev.sq]

\* calculateZScore: 0 when stdDev is 0, else (value - mean) / stdDev.
\* The result z = diff / sqrt(sq) is carried as the pair (diff, sq).
calculateZScore(value, mean, stdDev) ==
    IF stdDev.sq[1] = 0 THEN [diff |-> <<0, 1>>, sq |-> <<1, 1>>]
    ELSE [diff |-> RSub(value, mean), sq |-> stdDev.sq]

\* Math.abs(z) > k for a rational k >= 0:  diff^2 / sq > k^2
AbsZGreater(z, k) == RGreater(RDiv(RMul(z.diff, z.diff), z.sq), RMul(k, k))

\* z > 0
ZPositive(z) == z.diff[1] > 0

-----------------------------------------------------------------------------
(* Summary snapshots, as aggregateData builds them *)

\* one row of summary.metrics; only the fields the detector reads are kept
MetricRow(svc, req, err, p95) ==
    [service |-> svc, totalRequests |-> req, totalErrors |-> err, p95Latency |-> p95]

RECURSIVE SumRequests(_)
SumRequests(metrics) ==
    IF metrics = <<>> THEN 0
    ELSE Head(metrics).totalRequests + SumRequests(Tail(metrics))

\* requestVolume.total is the sum of totalRequests over the metric rows
MakeSummary(ts, metrics) ==
    [timestamp |-> ts, metrics |-> metrics,
     requestVolume |-> [total |-> SumRequests(metrics)]]

\* The metric rows of the snapshots the model draws from.  They are chosen so
\* that every branch of the detector is taken: a steady baseline, a busier
\* window with the same error rate, an absolute-floor breach, an outage that
\* breaches every threshold, a slow window, an empty window, a surge, a
\* two-service window, and a window that lies exactly three standard deviations
\* above a baseline of two-service windows, in error rate and in latency.
ProfileMetrics ==
    [ normal  |-> << MetricRow("a", 100, 2, 100) >>,
      busy    |-> << MetricRow("a", 200, 4, 100) >>,
      errors  |-> << MetricRow("a", 100, 8, 100) >>,
      outage  |-> << MetricRow("a", 400, 120, 2400) >>,
      slow    |-> << MetricRow("a", 100, 2, 1200) >>,
      idle    |-> << >>,
      drained |-> << MetricRow("a", 0, 0, 0) >>,
      pair    |-> << MetricRow("a", 100, 2, 100), MetricRow("b", 100, 4, 300) >>,
      threeSigma |-> << MetricRow("a", 100, 6, 500) >> ]

Profiles == DOMAIN ProfileMetrics

-----------------------------------------------------------------------------
(* services/anomaly-detector.ts *)

NoAnomaly == [isAnomaly |-> FALSE]

RECURSIVE Flatten(_)
Flatten(seqs) ==
    IF seqs = <<>> THEN <<>> ELSE Head(seqs) \o Flatten(Tail(seqs))

\* the rows with totalRequests > 0, in order
RECURSIVE RowsWithRequests(_)
RowsWithRequests(metrics) ==
    IF metrics = <<>> THEN <<>>
    ELSE (IF Head(metrics).totalRequests > 0 THEN <<Head(metrics)>> ELSE <<>>)
            \o RowsWithRequests(Tail(metrics))

\* the rows with p95Latency > 0, in order
RECURSIVE RowsWithLatency(_)
RowsWithLatency(metrics) ==
    IF metrics = <<>> THEN <<>>
    ELSE (IF Head(metrics).p95Latency > 0 THEN <<Head(metrics)>> ELSE <<>>)
            \o RowsWithLatency(Tail(metrics))

\* the snapshots whose requestVolume.total is truthy (not 0), in order
RECURSIVE SnapshotsWithVolume(_)
SnapshotsWithVolume(hist) ==
    IF hist = <<>> THEN <<>>
    ELSE (IF Head(hist).requestVolume.total # 0 THEN <<Head(hist)>> ELSE <<>>)
            \o SnapshotsWithVolume(Tail(hist))

\* (totalErrors / totalRequests) * 100
ErrorRatePct(err, req) == RMul(RDiv(RInt(err), RInt(req)), RInt(100))

\* the per-service historical error rates, over rows with totalRequests > 0
HistErrorRates(hist) ==
    Flatten([i \in 1..Len(hist) |->
        LET rows == RowsWithRequests(hist[i].metrics)
        IN  [j \in 1..Len(rows) |->
                ErrorRatePct(rows[j].totalErrors, rows[j].totalRequests)]])

RECURSIVE SumErrors(_)
SumErrors(metrics) ==
    IF metrics = <<>> THEN 0
    ELSE Head(metrics).totalErrors + SumErrors(Tail(metrics))

\* the current aggregate error rate: total errors / total requests, in percent
CurrentErrorRate(cur) ==
    IF Len(cur.metrics) > 0 /\ SumRequests(cur.metrics) > 0
    THEN ErrorRatePct(SumErrors(cur.metrics), SumRequests(cur.metrics))
    ELSE <<0, 1>>

SeverityOf_HighByValueOnly(value, z, critAbs, highAbs, medAbs) ==
    IF RGreater(value, RInt(critAbs)) \/ AbsZGreater(z, <<3, 1>>) THEN "critical"
    ELSE IF RGreater(value, RInt(highAbs)) THEN "high"
    ELSE IF RGreater(value, RInt(medAbs)) \/ AbsZGreater(z, <<2, 1>>) THEN "medium"
    ELSE "low"

\* the severity ladder shared by the error-rate and latency detectors
SeverityOf(value, z, critAbs, highAbs, medAbs) ==
    IF RGreater(value, RInt(critAbs)) \/ AbsZGreater(z, <<3, 1>>) THEN "critical"
    ELSE IF RGreater(value, RInt(highAbs)) \/ AbsZGreater(z, <<5, 2>>) THEN "high"
    ELSE IF RGreater(value, RInt(medAbs)) \/ AbsZGreater(z, <<2, 1>>) THEN "medium"
    ELSE "low"

\* the trigger: Math.abs(zScore) > 2 || currentErrorRate > 5
ErrorRateTrigger_ZOnly(zScore, currentErrorRate) == AbsZGreater(zScore, <<2, 1>>)

ErrorRateTrigger(zScore, currentErrorRate) ==
    AbsZGreater(zScore, <<2, 1>>) \/ RGreater(currentErrorRate, RInt(5))

\* detectErrorRateAnomaly past its length guard
ErrorRateResult(hist, cur) ==
    LET errorRates == HistErrorRates(hist) IN
    IF Len(errorRates) = 0 THEN NoAnomaly
    ELSE
      LET mean == calculateMean(errorRates)
          stdDev == calculateStdDev(errorRates, mean)
          currentErrorRate == CurrentErrorRate(cur)
          zScore == calculateZScore(currentErrorRate, mean, stdDev)
      IN  IF ~ErrorRateTrigger(zScore, currentErrorRate) THEN NoAnomaly
          ELSE [isAnomaly |-> TRUE, metric |-> "error_rate",
                currentValue |-> currentErrorRate, zScore |-> zScore,
                severity |-> SeverityOf(currentErrorRate, zScore, 20, 10, 5)]

detectErrorRateAnomaly_AtLeast2(hist, cur) ==
    IF Len(hist) < 2 THEN NoAnomaly ELSE ErrorRateResult(hist, cur)

detectErrorRateAnomaly(hist, cur) ==
    IF Len(hist) < 3 THEN NoAnomaly ELSE ErrorRateResult(hist, cur)

\* rows whose p95Latency is set and positive
HistLatencies(hist) ==
    Flatten([i \in 1..Len(hist) |->
        LET rows == RowsWithLatency(hist[i].metrics)
        IN  [j \in 1..Len(rows) |-> RInt(rows[j].p95Latency)]])

\* the mean of the positive per-service P95 latencies of the current snapshot
CurrentLatency(cur) ==
    LET rows == RowsWithLatency(cur.metrics)
    IN  IF Len(cur.metrics) > 0 /\ Len(rows) > 0
        THEN calculateMean([j \in 1..Len(rows) |-> RInt(rows[j].p95Latency)])
        ELSE <<0, 1>>

detectLatencyAnomaly(hist, cur) ==
    IF Len(hist) < 3 THEN NoAnomaly
    ELSE
      LET latencies == HistLatencies(hist) IN
      IF Len(latencies) = 0 THEN NoAnomaly
      ELSE
        LET mean == calculateMean(latencies)
            stdDev == calculateStdDev(latencies, mean)
            currentLatency == CurrentLatency(cur)
            zScore == calculateZScore(currentLatency, mean, stdDev)
            isAnomaly == AbsZGreater(zScore, <<2, 1>>)
                            \/ RGreater(currentLatency, RInt(1000))
        IN  IF ~isAnomaly THEN NoAnomaly
            ELSE [isAnomaly |-> TRUE, metric |-> "latency",
                  currentValue |-> currentLatency, zScore |-> zScore,
                  severity |-> SeverityOf(currentLatency, zScore, 2000, 1500, 1000)]

\* one sample per snapshot whose requestVolume.total is truthy
HistVolumes(hist) ==
    LET rows == SnapshotsWithVolume(hist)
    IN  [j \in 1..Len(rows) |-> RInt(rows[j].requestVolume.total)]

detectVolumeAnomaly_SpikesOnly(hist, cur) ==
    IF Len(hist) < 3 THEN NoAnomaly
    ELSE
      LET volumes == HistVolumes(hist) IN
      IF Len(volumes) = 0 THEN NoAnomaly
      ELSE
        LET mean == calculateMean(volumes)
            stdDev == calculateStdDev(volumes, mean)
            currentVolume == RInt(cur.requestVolume.total)
            zScore == calculateZScore(currentVolume, mean, stdDev)
        IN  IF ~(AbsZGreater(zScore, <<5, 2>>) /\ ZPositive(zScore)) THEN NoAnomaly
            ELSE [isAnomaly |-> TRUE, metric |-> "request_volume",
                  currentValue |-> currentVolume, zScore |-> zScore,
                  severity |->
                      IF AbsZGreater(zScore, <<7, 2>>) THEN "critical"
                      ELSE IF AbsZGreater(zScore, <<3, 1>>) THEN "high"
                      ELSE "medium",
                  direction |-> "spike"]

detectVolumeAnomaly(hist, cur) ==
    IF Len(hist) < 3 THEN NoAnomaly
    ELSE
      LET volumes == HistVolumes(hist) IN
      IF Len(volumes) = 0 THEN NoAnomaly
      ELSE
        LET mean == calculateMean(volumes)
            stdDev == calculateStdDev(volumes, mean)
            currentVolume == RInt(cur.requestVolume.total)
            zScore == calculateZScore(currentVolume, mean, stdDev)
            isAnomaly == AbsZGreater(zScore, <<5, 2>>)
        IN  IF ~isAnomaly THEN NoAnomaly
            ELSE [isAnomaly |-> TRUE, metric |-> "request_volume",
                  currentValue |-> currentVolume, zScore |-> zScore,
                  severity |->
                      IF AbsZGreater(zScore, <<7, 2>>) THEN "critical"
                      ELSE IF AbsZGreater(zScore, <<3, 1>>) THEN "high"
                      ELSE IF AbsZGreater(zScore, <<5, 2>>) THEN "medium"
                      ELSE "low",
                  direction |-> IF ZPositive(zScore) THEN "spike" ELSE "drop"]

detectAnomalies_LatencyFirst(hist, cur) ==
    LET latencyAnomaly == detectLatencyAnomaly(hist, cur) IN
    IF latencyAnomaly.isAnomaly THEN latencyAnomaly
    ELSE LET errorAnomaly == detectErrorRateAnomaly(hist, cur) IN
         IF errorAnomaly.isAnomaly THEN errorAnomaly
         ELSE detectVolumeAnomaly(hist, cur)

\* error rate first, then latency, then request volume; first result wins
detectAnomalies(hist, cur) ==
    LET errorAnomaly == detectErrorRateAnomaly(hist, cur) IN
    IF errorAnomaly.isAnomaly THEN errorAnomaly
    ELSE LET latencyAnomaly == detectLatencyAnomaly(hist, cur) IN
         IF latencyAnomaly.isAnomaly THEN latencyAnomaly
         ELSE LET volumeAnomaly == detectVolumeAnomaly(hist, cur) IN
              IF volumeAnomaly.isAnomaly THEN volumeAnomaly
              ELSE NoAnomaly

-----------------------------------------------------------------------------
(* Redis, as the services use it: setEx and get on keys with an expiry *)

Min(a, b) == IF a < b THEN a ELSE b

\* A key space: the <prefix>:<timestamp> keys by timestamp, and <prefix>:latest
\* as a list of at most one entry.  An entry is [data, exp].
EmptyStore == [byTime |-> <<>>, latest |-> <<>>]

Entry(data, seconds, t) == [data |-> data, exp |-> t + TicksOfSeconds(seconds)]

\* redisClient.setEx(`<prefix>:${timestamp}`, seconds, JSON.stringify(data))
SetExKey(store, timestamp, seconds, data, t) ==
    [store EXCEPT !.byTime = (timestamp :> Entry(data, seconds, t)) @@ store.byTime]

SetExLatest_KeepsFirst(store, seconds, data, t) ==
    IF store.latest # <<>> THEN store
    ELSE [store EXCEPT !.latest = <<Entry(data, seconds, t)>>]

\* redisClient.setEx('<prefix>:latest', seconds, JSON.stringify(data))
SetExLatest(store, seconds, data, t) ==
    [store EXCEPT !.latest = <<Entry(data, seconds, t)>>]

LiveKeys_IgnoresExpiry(store, t) == DOMAIN store.byTime

\* the timestamp keys that have not expired at time t
LiveKeys(store, t) == {k \in DOMAIN store.byTime : store.byTime[k].exp > t}

GetLatest_Missing(store, t) == <<>>

\* redisClient.get('<prefix>:latest'): a list of at most one value
GetLatest(store, t) ==
    IF store.latest # <<>> /\ store.latest[1].exp > t
    THEN <<store.latest[1].data>> ELSE <<>>

NewestKeys_Oldest(keys, count) == {k \in keys : Cardinality({j \in keys : j < k}) < count}

\* keys.sort().reverse().slice(0, count): the count newest timestamp keys
NewestKeys(keys, count) == {k \in keys : Cardinality({j \in keys : j > k}) < count}

\* Array.prototype.slice(-n)
LastN(s, n) == SubSeq(s, Len(s) - Min(n, Len(s)) + 1, Len(s))

\* getRecentSummaries(count).  enumeration is "ok" when SCAN (or KEYS) lists
\* the keys, "fails" when both fail or are unavailable, and "down" when the
\* client cannot connect, which the outer catch turns into [].
\* summaries holds aggregated:latest first, then the values of the newest keys,
\* newest first; of the summaries with one timestamp the first is kept; the
\* kept ones are sorted by timestamp, ascending, and the last count returned.
getRecentSummaries(store, count, enumeration, t) ==
    IF enumeration = "down" THEN <<>>
    ELSE
      LET timestampKeys ==
              NewestKeys(IF enumeration = "ok" THEN LiveKeys(store, t) ELSE {}, count)
          latest == GetLatest(store, t)
          stamps == {latest[i].timestamp : i \in DOMAIN latest}
                        \cup {store.byTime[k].data.timestamp : k \in timestampKeys}
          kept(ts) ==
              IF latest # <<>> /\ latest[1].timestamp = ts THEN latest[1]
              ELSE store.byTime[CHOOSE k \in timestampKeys :
                                  /\ store.byTime[k].data.timestamp = ts
                                  /\ \A j \in timestampKeys :
                                        store.byTime[j].data.timestamp = ts => j <= k].data
          uniqueSummaries ==
              [i \in 1..Cardinality(stamps) |->
                  kept(CHOOSE ts \in stamps : Cardinality({u \in stamps : u < ts}) = i - 1)]
      IN  LastN(uniqueSummaries, count)

-----------------------------------------------------------------------------
(* cron-aggregator: runAggregation *)

\* the profiles an aggregation cycle may produce while the detector is observed
AggProfiles == {"normal", "outage"}

\* an external call of a detection cycle fails, or does not
Fault == faults < MaxFaults /\ faults' = faults + 1

NoFault == faults' = faults

\* the retry loops of startAnomalyDetector and startAggregator
maxRetries == 5

\* the delay awaited between two connection tests, in milliseconds
RetryDelayMs == 3000

Services == {"detector", "aggregator"}

\* what both services keep of their process: where startup stands, the
\* connection tests made and the delays awaited, the two store connections,
\* how far the SIGTERM/SIGINT handler got, and the exit code (-1 while running)
Connected ==
    [boot |-> "ready", dbTests |-> 1, redisTests |-> 1, waitedMs |-> 0,
     dbConnected |-> TRUE, redisConnected |-> TRUE,
     dbOpen |-> TRUE, redisOpen |-> TRUE, closing |-> "none", exitCode |-> -1]

\* the process as app.listen calls the start function
Booting ==
    [boot |-> "dbTest", dbTests |-> 0, redisTests |-> 0, waitedMs |-> 0,
     dbConnected |-> FALSE, redisConnected |-> FALSE,
     dbOpen |-> FALSE, redisOpen |-> FALSE, closing |-> "none", exitCode |-> -1]

AggIdle ==
    [pc |-> "idle", runs |-> 0, failures |-> 0, outcome |-> "none", failedAt |-> "",
     summary |-> MakeSummary(0, <<>>), nextRun |-> 0, timer |-> FALSE] @@ Connected

\* the timer is installed only when the cycle startAggregator awaits completed
AggFinish_OnlyAfterSuccess(rec) ==
    IF rec.pc = "idle" /\ ~rec.timer /\ rec.outcome = "complete"
    THEN [rec EXCEPT !.timer = TRUE, !.nextRun = now + AggIntervalTicks]
    ELSE rec

\* the cycle returns; when it is the cycle startAggregator awaits, the
\* continuation installs the setInterval timer
AggFinish(rec) ==
    IF rec.pc = "idle" /\ ~rec.timer
    THEN [rec EXCEPT !.timer = TRUE, !.nextRun = now + AggIntervalTicks]
    ELSE rec

\* the rejection leaves runAggregation and the setInterval callback
AggCaught_Rethrows(stage) ==
    /\ agg.failures < MaxFaults
    /\ agg' = AggFinish([agg EXCEPT !.pc = "idle", !.outcome = "error",
                                    !.failedAt = stage, !.failures = @ + 1])
    /\ alive' = [alive EXCEPT !.aggregator = FALSE]

\* an external call of the aggregation cycle failed: the catch block of
\* runAggregation logs the error and does not rethrow
AggCaught(stage) ==
    /\ agg.failures < MaxFaults
    /\ agg' = AggFinish([agg EXCEPT !.pc = "idle", !.outcome = "error",
                                    !.failedAt = stage, !.failures = @ + 1])
    /\ UNCHANGED alive

AggFrame ==
    UNCHANGED <<now, env, sched, cyc, recentAnomalies, aiStore, aiTable, notifyQueue,
                dispatchLog, lastMark, faults, detVars, consumerVars>>

\* the aggregator shares an event loop with the detector and starts no cycle
\* while a detection cycle awaits its analysis
StartAggregation_AfterDetection ==
    /\ \A c \in DOMAIN cyc : cyc[c].pc # "analyze"
    /\ alive.aggregator
    /\ agg.boot = "ready"
    /\ agg.pc = "idle"
    /\ agg.runs < MaxAggCycles
    /\ IF agg.timer THEN now >= agg.nextRun ELSE agg.runs = 0
    /\ agg' = [agg EXCEPT !.pc = "aggregate", !.runs = @ + 1, !.outcome = "running",
                          !.failedAt = "",
                          !.nextRun = IF agg.timer THEN @ + AggIntervalTicks ELSE @]
    /\ UNCHANGED <<aggStore, alive>>
    /\ AggFrame

\* the startup call of runAggregation, made once both connection tests
\* succeeded, or a setInterval callback, which fires every
\* AGGREGATION_INTERVAL_MINUTES from the moment the timer was installed
StartAggregation ==
    /\ alive.aggregator
    /\ agg.boot = "ready"
    /\ agg.pc = "idle"
    /\ agg.runs < MaxAggCycles
    /\ IF agg.timer THEN now >= agg.nextRun ELSE agg.runs = 0
    /\ agg' = [agg EXCEPT !.pc = "aggregate", !.runs = @ + 1, !.outcome = "running",
                          !.failedAt = "",
                          !.nextRun = IF agg.timer THEN @ + AggIntervalTicks ELSE @]
    /\ UNCHANGED <<aggStore, alive>>
    /\ AggFrame

AggregateData_WritesPartial ==
    /\ alive.aggregator
    /\ agg.pc = "aggregate"
    /\ \E queries \in {"ok", "logs", "metrics", "traces"} :
          IF queries = "ok"
          THEN /\ agg.dbOpen
               /\ \E p \in AggProfiles :
                    agg' = [agg EXCEPT !.pc = "store",
                                       !.summary = MakeSummary(now, ProfileMetrics[p])]
               /\ UNCHANGED <<alive, aggStore>>
          ELSE /\ AggCaught(queries)
               /\ aggStore' = SetExLatest(aggStore, SummaryTtlSeconds,
                                          MakeSummary(now, <<>>), now)
    /\ AggFrame

\* aggregateData: getLogsData, getMetricsData and getTracesData are awaited
\* in turn and the summary is built with the timestamp taken at its start.
\* A failed query throws out of aggregateData into the catch block.
AggregateData ==
    /\ alive.aggregator
    /\ agg.pc = "aggregate"
    /\ \E queries \in {"ok", "logs", "metrics", "traces"} :
          IF queries = "ok"
          THEN /\ agg.dbOpen
               /\ \E p \in AggProfiles :
                    agg' = [agg EXCEPT !.pc = "store",
                                       !.summary = MakeSummary(now, ProfileMetrics[p])]
               /\ UNCHANGED alive
          ELSE AggCaught(queries)
    /\ UNCHANGED aggStore
    /\ AggFrame

\* the two writes of storeAggregatedSummaries that the detector reads, made at
\* time t: the key is built from the clock, not from summaries.timestamp
storeAggregatedSummaries(store, summaries, t) ==
    SetExLatest(SetExKey(store, t, SummaryTtlSeconds, summaries, t),
                SummaryTtlSeconds, summaries, t)

\* storeAggregatedSummaries: aggregated:<timestamp>, with a timestamp taken
\* inside storeAggregatedSummaries, then aggregated:latest, then the derived
\* keys (service:*:metrics, slow:endpoints, errors:counts, volume:requests),
\* which the detector never reads.  The first setEx that fails throws and
\* leaves the earlier writes in place.
StoreAggregatedSummaries ==
    /\ alive.aggregator
    /\ agg.pc = "store"
    /\ \E writes \in {"ok", "setKey", "setLatest", "setDerived"} :
        LET keyed == SetExKey(aggStore, now, SummaryTtlSeconds, agg.summary, now)
            both == storeAggregatedSummaries(aggStore, agg.summary, now)
        IN  /\ aggStore' = CASE writes = "setKey" -> aggStore
                             [] writes = "setLatest" -> keyed
                             [] OTHER -> both
            /\ IF writes = "ok"
               THEN /\ agg' = AggFinish([agg EXCEPT !.pc = "idle",
                                                     !.outcome = "complete"])
                    /\ UNCHANGED alive
               ELSE AggCaught(writes)
    /\ AggFrame

AggStep == StartAggregation \/ AggregateData \/ StoreAggregatedSummaries

-----------------------------------------------------------------------------
(* auto-anomaly-detector: the cooldown table *)

\* `${anomaly.metric}:${anomaly.severity}`
getAnomalyKey_MetricOnly(anomaly) == anomaly.metric

getAnomalyKey(anomaly) == anomaly.metric \o ":" \o anomaly.severity

wasAnalyzedRecently_Inclusive(table, anomalyKey, t) ==
    IF anomalyKey \notin DOMAIN table \/ table[anomalyKey] = 0 THEN FALSE
    ELSE t - table[anomalyKey] <= ANOMALY_COOLDOWN_MINUTES * TicksPerMinute

\* an entry suppresses whatever its age
wasAnalyzedRecently_NeverExpires(table, anomalyKey, t) ==
    ~(anomalyKey \notin DOMAIN table \/ table[anomalyKey] = 0)

\* false when the key is absent (or its timestamp is falsy), else
\* (now - lastAnalyzed) / (1000 * 60) < ANOMALY_COOLDOWN_MINUTES
wasAnalyzedRecently(table, anomalyKey, t) ==
    IF anomalyKey \notin DOMAIN table \/ table[anomalyKey] = 0 THEN FALSE
    ELSE t - table[anomalyKey] < ANOMALY_COOLDOWN_MINUTES * TicksPerMinute

\* set the key to now and delete nothing
markAsAnalyzed_NoCleanup(table, anomalyKey, t) == (anomalyKey :> t) @@ table

\* set the key to now, then delete every entry with now - timestamp >= cooldownMs
markAsAnalyzed_PurgesAtWindow(table, anomalyKey, t) ==
    LET set == (anomalyKey :> t) @@ table
        cooldownMs == ANOMALY_COOLDOWN_MINUTES * TicksPerMinute
    IN  [k \in {x \in DOMAIN set : ~(t - set[x] >= cooldownMs)} |-> set[k]]

\* set the key to now, then delete every entry with now - timestamp > cooldownMs
markAsAnalyzed(table, anomalyKey, t) ==
    LET set == (anomalyKey :> t) @@ table
        cooldownMs == ANOMALY_COOLDOWN_MINUTES * TicksPerMinute
    IN  [k \in {x \in DOMAIN set : ~(t - set[x] > cooldownMs)} |-> set[k]]

RECURSIVE SeqsUpTo(_, _)
SeqsUpTo(S, n) ==
    IF n = 0 THEN {<<>>}
    ELSE LET shorter == SeqsUpTo(S, n - 1)
         IN  shorter \cup {Append(s, x) : s \in {t \in shorter : Len(t) = n - 1}, x \in S}

\* a baseline of snapshots with ascending timestamps 1, 2, ...
HistoryOf(ps) == [i \in 1..Len(ps) |-> MakeSummary(i, ProfileMetrics[ps[i]])]

\* the metrics a stored snapshot can carry while the services are observed
StoredProfiles == {"normal", "errors", "outage"}

ProfileOf(summary) == CHOOSE p \in StoredProfiles : ProfileMetrics[p] = summary.metrics

\* Step 2 of runAnomalyDetection, tabulated: the last snapshot loaded is the
\* current one, the others are the baseline handed to detectAnomalies
DetectionOf ==
    [ps \in {s \in SeqsUpTo(StoredProfiles, HISTORICAL_WINDOWS) : Len(s) >= 3} |->
        LET historical == HistoryOf(ps)
        IN  detectAnomalies(SubSeq(historical, 1, Len(historical) - 1),
                            historical[Len(historical)])]

-----------------------------------------------------------------------------
(* auto-anomaly-detector: runAnomalyDetection and its scheduling *)

Slots == 1..MaxCycles

IdleCycle ==
    [pc |-> "idle", outcome |-> "none", failedAt |-> "", loaded |-> 0,
     key |-> "", metric |-> "", severity |-> "",
     calls |-> <<>>, provider |-> "", timestamp |-> 0,
     redisSaved |-> FALSE, dbSaved |-> FALSE, dbFailed |-> FALSE,
     marked |-> FALSE, notifyCalled |-> FALSE, notified |-> FALSE,
     notifyTimestamp |-> 0, startsAtEnd |-> 0]

FreshCycle == [IdleCycle EXCEPT !.pc = "loading", !.outcome = "running"]

\* startAnomalyDetector is about to make its first call of runAnomalyDetection
SchedIdle == [phase |-> "starting", nextFire |-> 0, started |-> 0] @@ Connected

FreeSlots == {c \in Slots : cyc[c].pc = "idle"}

\* the setInterval timer is due and a cycle can be started
TimerDue ==
    /\ alive.detector
    /\ sched.phase = "interval"
    /\ sched.started < MaxStarts
    /\ now >= sched.nextFire
    /\ FreeSlots # {}

\* the cycle ends; when it is the cycle startAnomalyDetector awaits, the
\* continuation installs the setInterval timer
Finish(c, rec) ==
    /\ cyc' = [cyc EXCEPT ![c] = IF rec.pc = "idle"
                                 THEN [rec EXCEPT !.startsAtEnd = sched.started]
                                 ELSE rec]
    /\ sched' = IF rec.pc = "idle" /\ sched.phase = "startup"
                THEN [sched EXCEPT !.phase = "interval", !.nextFire = now + IntervalTicks]
                ELSE sched

\* the catch block of runAnomalyDetection: log, do not rethrow
Caught(c, rec, stage) ==
    /\ Finish(c, [rec EXCEPT !.pc = "idle", !.outcome = "error", !.failedAt = stage])
    /\ UNCHANGED alive

\* the AnalysisRecord a cycle builds after analyzeAnomaly returned
AnalysisData(rec) ==
    [provider |-> rec.provider, analysis |-> "analysis by " \o rec.provider,
     severity |-> rec.severity, metric |-> rec.metric,
     message |-> rec.metric \o " anomaly detected", timestamp |-> rec.timestamp]

\* await runAnomalyDetection(), the first cycle, made once both connection
\* tests succeeded and before the timer exists
RunStartupCycle ==
    /\ alive.detector
    /\ sched.boot = "ready"
    /\ sched.phase = "starting"
    /\ cyc' = [cyc EXCEPT ![1] = FreshCycle]
    /\ sched' = [sched EXCEPT !.phase = "startup", !.nextFire = 0, !.started = 1]
    /\ UNCHANGED <<faults, now, env, agg, recentAnomalies, alive, dispatchLog, lastMark,
                   storeVars, detVars, consumerVars>>

\* the setInterval callback starts a cycle, whether or not earlier ones ended;
\* it is given the free slot whose last cycle ended longest ago
IntervalFire ==
    /\ TimerDue
    /\ LET older(x, y) == \/ cyc[x].startsAtEnd < cyc[y].startsAtEnd
                           \/ (cyc[x].startsAtEnd = cyc[y].startsAtEnd /\ x <= y)
           c == CHOOSE x \in FreeSlots : \A y \in FreeSlots : older(x, y)
       IN  cyc' = [cyc EXCEPT ![c] = FreshCycle]
    /\ sched' = [sched EXCEPT !.nextFire = @ + IntervalTicks, !.started = @ + 1]
    /\ UNCHANGED <<faults, now, env, agg, recentAnomalies, alive, dispatchLog, lastMark,
                   storeVars, detVars, consumerVars>>

\* the cooldown entry of the key is written as soon as the anomaly is detected
LoadSummaries_RefreshesOnDetection(c) ==
    /\ alive.detector
    /\ cyc[c].pc = "loading"
    /\ \E enumeration \in {"ok", "fails", "down"} :
       \E historical \in {getRecentSummaries(aggStore, HISTORICAL_WINDOWS, enumeration, now)} :
        LET rec == [cyc[c] EXCEPT !.loaded = Len(historical)]
        IN  /\ IF enumeration = "ok" THEN NoFault ELSE Fault
            /\ IF Len(historical) < 3
               THEN /\ Finish(c, [rec EXCEPT !.pc = "idle", !.outcome = "noHistory"])
                    /\ UNCHANGED recentAnomalies
               ELSE
                 \E anomaly \in {DetectionOf[[i \in 1..Len(historical) |->
                                                    ProfileOf(historical[i])]]} :
                     IF ~anomaly.isAnomaly
                     THEN /\ Finish(c, [rec EXCEPT !.pc = "idle", !.outcome = "noAnomaly"])
                          /\ UNCHANGED recentAnomalies
                     ELSE
                       LET found == [rec EXCEPT !.key = getAnomalyKey(anomaly),
                                                !.metric = anomaly.metric,
                                                !.severity = anomaly.severity]
                       IN  /\ recentAnomalies' =
                                  markAsAnalyzed(recentAnomalies, found.key, now)
                           /\ IF wasAnalyzedRecently(recentAnomalies, found.key, now)
                              THEN Finish(c, [found EXCEPT !.pc = "idle",
                                                           !.outcome = "suppressed"])
                              ELSE Finish(c, [found EXCEPT !.pc = "context"])
    /\ UNCHANGED <<now, env, agg, alive, dispatchLog, lastMark,
                   storeVars, detVars, consumerVars>>

\* Steps 1 to 3: getRecentSummaries returns; the length guard, detectAnomalies
\* and the cooldown check follow in the same turn, and getRecentLogs is called
LoadSummaries(c) ==
    /\ alive.detector
    /\ cyc[c].pc = "loading"
    /\ \E enumeration \in {"ok", "fails", "down"} :
       \E historical \in {getRecentSummaries(aggStore, HISTORICAL_WINDOWS, enumeration, now)} :
        LET rec == [cyc[c] EXCEPT !.loaded = Len(historical)]
        IN  /\ IF enumeration = "ok" THEN NoFault ELSE Fault
            /\ IF Len(historical) < 3
               THEN Finish(c, [rec EXCEPT !.pc = "idle", !.outcome = "noHistory"])
               ELSE
                 \E anomaly \in {DetectionOf[[i \in 1..Len(historical) |->
                                                    ProfileOf(historical[i])]]} :
                     IF ~anomaly.isAnomaly
                     THEN Finish(c, [rec EXCEPT !.pc = "idle", !.outcome = "noAnomaly"])
                     ELSE
                       LET found == [rec EXCEPT !.key = getAnomalyKey(anomaly),
                                                !.metric = anomaly.metric,
                                                !.severity = anomaly.severity]
                       IN  IF wasAnalyzedRecently(recentAnomalies, found.key, now)
                           THEN Finish(c, [found EXCEPT !.pc = "idle",
                                                        !.outcome = "suppressed"])
                           ELSE Finish(c, [found EXCEPT !.pc = "context"])
    /\ UNCHANGED <<now, env, agg, recentAnomalies, alive, dispatchLog, lastMark,
                   storeVars, detVars, consumerVars>>

\* analyzeAnomaly, given how the provider calls it makes would end: Groq when
\* GROQ_API_KEY is set; OpenAI when Groq was not called or failed and
\* OPENAI_API_KEY is set; it throws when neither call returned
analyzeAnomaly_OpenAIFirst(groqOk, openaiOk) ==
    LET openaiCall == IF env.openai
                      THEN <<[provider |-> "openai", ok |-> openaiOk]>> ELSE <<>>
        openaiReturned == env.openai /\ openaiOk
        groqCall == IF ~openaiReturned /\ env.groq
                    THEN <<[provider |-> "groq", ok |-> groqOk]>> ELSE <<>>
    IN  [calls |-> openaiCall \o groqCall,
         provider |-> IF openaiReturned THEN "openai"
                      ELSE IF env.groq /\ groqOk THEN "groq" ELSE "none",
         throws |-> ~openaiReturned /\ ~(env.groq /\ groqOk)]

analyzeAnomaly(groqOk, openaiOk) ==
    LET groqCall == IF env.groq
                    THEN <<[provider |-> "groq", ok |-> groqOk]>> ELSE <<>>
        groqReturned == env.groq /\ groqOk
        openaiCall == IF ~groqReturned /\ env.openai
                      THEN <<[provider |-> "openai", ok |-> openaiOk]>> ELSE <<>>
    IN  [calls |-> groqCall \o openaiCall,
         provider |-> IF groqReturned THEN "groq"
                      ELSE IF env.openai /\ openaiOk THEN "openai" ELSE "none",
         throws |-> ~groqReturned /\ ~(env.openai /\ openaiOk)]

\* analyzeAnomaly threw and the cooldown entry is written all the same
AnalysisFailed_MarksCooldown(c, rec) ==
    /\ Caught(c, [rec EXCEPT !.marked = TRUE], "analyze")
    /\ recentAnomalies' = markAsAnalyzed(recentAnomalies, rec.key, now)
    /\ lastMark' = (rec.key :> now) @@ lastMark

\* analyzeAnomaly threw: control goes to the catch block of
\* runAnomalyDetection, past Steps 6 to 8
AnalysisFailed(c, rec) ==
    /\ Caught(c, rec, "analyze")
    /\ UNCHANGED <<recentAnomalies, lastMark>>

\* Steps 4 and 5: getRecentLogs and getRecentTraces return and analyzeAnomaly
\* is called, or one of the two queries throws.  With no API key set
\* analyzeAnomaly throws without calling out.
FetchContext(c) ==
    /\ alive.detector
    /\ cyc[c].pc = "context"
    /\ \E queries \in {"ok", "logsFail", "tracesFail"} :
          IF queries = "ok"
          THEN /\ sched.dbOpen
               /\ IF analyzeAnomaly(TRUE, TRUE).calls = <<>>
                  THEN /\ AnalysisFailed(c, cyc[c])
                       /\ UNCHANGED dispatchLog
                  ELSE /\ Finish(c, [cyc[c] EXCEPT !.pc = "analyze"])
                       /\ dispatchLog' = Append(dispatchLog,
                                                [key |-> cyc[c].key, at |-> now])
                       /\ UNCHANGED <<alive, recentAnomalies, lastMark>>
               /\ NoFault
          ELSE /\ Caught(c, cyc[c], IF queries = "logsFail" THEN "logs" ELSE "traces")
               /\ Fault
               /\ UNCHANGED <<dispatchLog, recentAnomalies, lastMark>>
    /\ UNCHANGED <<now, env, agg, storeVars, detVars, consumerVars>>

\* on success the cycle goes straight to the notification
Analyze_SkipsPersist(c) ==
    /\ alive.detector
    /\ cyc[c].pc = "analyze"
    /\ \E groqOk \in BOOLEAN, openaiOk \in BOOLEAN :
        LET result == analyzeAnomaly(groqOk, openaiOk)
            rec == [cyc[c] EXCEPT !.calls = result.calls]
        IN  /\ IF \E i \in DOMAIN result.calls : ~result.calls[i].ok
               THEN Fault ELSE NoFault
            /\ IF result.throws
               THEN AnalysisFailed(c, rec)
               ELSE /\ Finish(c, [rec EXCEPT !.pc = "notify",
                                             !.provider = result.provider,
                                             !.timestamp = now])
                    /\ UNCHANGED <<alive, recentAnomalies, lastMark>>
    /\ UNCHANGED <<now, env, agg, dispatchLog, storeVars, detVars, consumerVars>>

\* analyzeAnomaly settles: on success the record's timestamp is taken and
\* storeAIAnalysis is called
Analyze(c) ==
    /\ alive.detector
    /\ cyc[c].pc = "analyze"
    /\ \E groqOk \in BOOLEAN, openaiOk \in BOOLEAN :
        LET result == analyzeAnomaly(groqOk, openaiOk)
            rec == [cyc[c] EXCEPT !.calls = result.calls]
        IN  /\ IF \E i \in DOMAIN result.calls : ~result.calls[i].ok
               THEN Fault ELSE NoFault
            /\ IF result.throws
               THEN AnalysisFailed(c, rec)
               ELSE /\ Finish(c, [rec EXCEPT !.pc = "persist",
                                             !.provider = result.provider,
                                             !.timestamp = now])
                    /\ UNCHANGED <<alive, recentAnomalies, lastMark>>
    /\ UNCHANGED <<now, env, agg, dispatchLog, storeVars, detVars, consumerVars>>

\* the properties of analysisData, in the order the object literal gives them
AnalysisFields == <<"provider", "analysis", "severity", "metric", "message", "timestamp">>

\* the text leaves out the message
JSONStringify_DropsMessage(value) ==
    LET own == SelectSeq(AnalysisFields, LAMBDA f : f \in DOMAIN value /\ f # "message")
    IN  [i \in 1..Len(own) |-> <<own[i], value[own[i]]>>]

\* JSON.stringify of an object: its own properties in order, as name and
\* value; strings and finite numbers are written as they are
JSONStringify(value) ==
    LET own == SelectSeq(AnalysisFields, LAMBDA f : f \in DOMAIN value)
    IN  [i \in 1..Len(own) |-> <<own[i], value[own[i]]>>]

\* JSON.parse of an object text: one property per name, the last one written
\* under a name taken
JSONParse(text) ==
    [name \in {text[i][1] : i \in DOMAIN text} |->
        text[CHOOSE i \in DOMAIN text :
                /\ text[i][1] = name
                /\ \A j \in DOMAIN text : text[j][1] = name => j <= i][2]]

\* storeAIAnalysis: ai:analysis:<timestamp> and ai:analysis:latest are set to
\* JSON.stringify(analysis); it catches its own errors and returns
storeAIAnalysis(store, data, result, t) ==
    LET keyed == SetExKey(store, data.timestamp, AnalysisTtlSeconds,
                          JSONStringify(data), t)
    IN  CASE result = "ok" -> SetExLatest(keyed, AnalysisTtlSeconds,
                                          JSONStringify(data), t)
          [] result = "latestFails" -> keyed
          [] OTHER -> store

\* the default of the limit parameter of getAIAnalysisFromRedis
AnalysisLimit == 10

\* getAIAnalysisFromRedis(limit) at time t: the keys ai:analysis:* other than
\* latest, sorted, reversed and cut to limit, each read and parsed
getAIAnalysisFromRedis(store, limit, t) ==
    LET analysisKeys == NewestKeys(LiveKeys(store, t), limit)
        nth(i) == CHOOSE k \in analysisKeys :
                      Cardinality({j \in analysisKeys : j > k}) = i - 1
    IN  [i \in 1..Cardinality(analysisKeys) |-> JSONParse(store.byTime[nth(i)].data)]

\* Steps 7 and 8: markAsAnalyzed, then sendNotification, which returns at once
\* when NOTIFY_QUEUE_URL is not set
MarkAndNotify(c, rec) ==
    /\ recentAnomalies' = markAsAnalyzed(recentAnomalies, rec.key, now)
    /\ lastMark' = (rec.key :> now) @@ lastMark
    /\ LET marked == [rec EXCEPT !.marked = TRUE, !.notifyCalled = TRUE,
                                 !.notifyTimestamp = now]
       IN  IF env.notifyUrl
           THEN Finish(c, [marked EXCEPT !.pc = "notify"])
           ELSE Finish(c, [marked EXCEPT !.pc = "idle", !.outcome = "complete"])
    /\ UNCHANGED alive

\* a failed saveAIAnalysis escapes to the outer catch block
AfterSave_Aborts(c, rec) ==
    IF rec.dbFailed
    THEN /\ Caught(c, rec, "dbSave")
         /\ UNCHANGED <<recentAnomalies, lastMark>>
    ELSE MarkAndNotify(c, rec)

\* the inner try/catch around saveAIAnalysis logs a failure, and the cycle
\* goes on to Step 7 either way
AfterSave(c, rec) == MarkAndNotify(c, rec)

\* Step 6: storeAIAnalysis, then saveAIAnalysis (the INSERT into ai_analysis),
\* then Steps 7 and 8 in the turn that follows
Persist(c) ==
    /\ alive.detector
    /\ cyc[c].pc = "persist"
    /\ \E redis \in {"ok", "latestFails", "fails"}, database \in {"ok", "fails"} :
        LET data == AnalysisData(cyc[c])
        IN  /\ database = "ok" => sched.dbOpen
            /\ IF redis = "ok" /\ database = "ok" THEN NoFault ELSE Fault
            /\ aiStore' = storeAIAnalysis(aiStore, data, redis, now)
            /\ aiTable' = IF database = "ok" THEN aiTable \cup {data} ELSE aiTable
            /\ AfterSave(c, [cyc[c] EXCEPT !.redisSaved = (redis # "fails"),
                                           !.dbSaved = (database = "ok"),
                                           !.dbFailed = (database # "ok")])
    /\ UNCHANGED <<now, env, agg, aggStore, notifyQueue, dispatchLog, detVars, consumerVars>>

\* the message is enqueued twice
NotifySucceeds_Twice(c) ==
    /\ alive.detector
    /\ cyc[c].pc = "notify"
    /\ LET message == [type |-> "anomaly_detected", severity |-> cyc[c].severity,
                       metric |-> cyc[c].metric, message |-> AnalysisData(cyc[c]).message,
                       analysis |-> AnalysisData(cyc[c]).analysis,
                       timestamp |-> cyc[c].notifyTimestamp,
                       provider |-> cyc[c].provider]
       IN  notifyQueue' = notifyQueue \o <<message, message>>
    /\ Finish(c, [cyc[c] EXCEPT !.pc = "idle", !.outcome = "complete", !.notified = TRUE])
    /\ UNCHANGED <<faults, now, env, agg, aggStore, aiStore, aiTable, recentAnomalies, alive,
                   dispatchLog, lastMark, detVars, consumerVars>>

\* sqs.sendMessage succeeded
NotifySucceeds(c) ==
    /\ alive.detector
    /\ cyc[c].pc = "notify"
    /\ notifyQueue' = Append(notifyQueue,
          [type |-> "anomaly_detected", severity |-> cyc[c].severity,
           metric |-> cyc[c].metric, message |-> AnalysisData(cyc[c]).message,
           analysis |-> AnalysisData(cyc[c]).analysis,
           timestamp |-> cyc[c].notifyTimestamp,
           provider |-> cyc[c].provider])
    /\ Finish(c, [cyc[c] EXCEPT !.pc = "idle", !.outcome = "complete", !.notified = TRUE])
    /\ UNCHANGED <<faults, now, env, agg, aggStore, aiStore, aiTable, recentAnomalies, alive,
                   dispatchLog, lastMark, detVars, consumerVars>>

\* the rejection leaves runAnomalyDetection and the setInterval callback
NotifyFails_Propagates(c) ==
    /\ alive.detector
    /\ cyc[c].pc = "notify"
    /\ Finish(c, [cyc[c] EXCEPT !.pc = "idle", !.outcome = "error", !.failedAt = "notify"])
    /\ alive' = [alive EXCEPT !.detector = FALSE]
    /\ Fault
    /\ UNCHANGED <<now, env, agg, recentAnomalies, dispatchLog, lastMark,
                   storeVars, detVars, consumerVars>>

\* sqs.sendMessage failed: sendNotification logs and rethrows, and the catch
\* block of runAnomalyDetection takes it
NotifyFails(c) ==
    /\ alive.detector
    /\ cyc[c].pc = "notify"
    /\ Caught(c, cyc[c], "notify")
    /\ Fault
    /\ UNCHANGED <<now, env, agg, recentAnomalies, dispatchLog, lastMark,
                   storeVars, detVars, consumerVars>>

CycleStep(c) ==
    \/ LoadSummaries(c)
    \/ FetchContext(c)
    \/ Analyze(c)
    \/ Persist(c)
    \/ NotifySucceeds(c)
    \/ NotifyFails(c)

-----------------------------------------------------------------------------
(* The two services, observed from the start of the detector *)

\* the detector starts after HISTORICAL_WINDOWS + 1 aggregation intervals
Epoch == AggIntervalTicks * (HISTORICAL_WINDOWS + 1)

\* the store as earlier aggregation cycles left it: n snapshots written one
\* aggregation interval apart, a steady baseline and then the newest one
StoreAfter(n, newest) ==
    LET at(i) == Epoch - (n - i + 1) * AggIntervalTicks
        snap(i) == MakeSummary(at(i), ProfileMetrics[IF i = n THEN newest ELSE "normal"])
    IN  [byTime |-> [t \in {at(i) : i \in 1..n} |->
                        Entry(snap(CHOOSE i \in 1..n : at(i) = t), SummaryTtlSeconds, t)],
         latest |-> <<Entry(snap(n), SummaryTtlSeconds, at(n))>>]

InitialStores == {StoreAfter(n, p) : n \in {2, 3, 4}, p \in {"normal", "errors"}}

\* no consumer service is observed: its queue is empty and its loop idle
ConsumerQuiet ==
    /\ sqsQueue = <<>>
    /\ rawTable = <<>>
    /\ consumer = [service |-> "none", pc |-> "poll", batch |-> <<>>]

DetQuiet ==
    /\ ConsumerQuiet
    /\ historicalSummaries = <<>>
    /\ currentSummary = MakeSummary(0, <<>>)
    /\ detected = [done |-> FALSE]

\* the state in which startAnomalyDetector makes its first call of
\* runAnomalyDetection, at time t on the aggregated store given
Started(t, store) ==
    /\ now = t
    /\ aggStore = store
    /\ agg = AggIdle
    /\ sched = SchedIdle
    /\ cyc = [c \in Slots |-> IdleCycle]
    /\ recentAnomalies = <<>>
    /\ aiStore = EmptyStore
    /\ aiTable = {}
    /\ notifyQueue = <<>>
    /\ alive = [detector |-> TRUE, aggregator |-> TRUE]
    /\ dispatchLog = <<>>
    /\ lastMark = <<>>
    /\ faults = 0
    /\ DetQuiet

Init ==
    /\ env \in [groq : BOOLEAN, openai : BOOLEAN, notifyUrl : BOOLEAN]
    /\ \E store \in InitialStores : Started(Epoch, store)

\* time passes, unless the timer is due
Tick ==
    /\ now < Epoch + MaxTime
    /\ ~TimerDue
    /\ now' = now + 1
    /\ UNCHANGED <<env, aggStore, agg, sched, cyc, recentAnomalies, aiStore, aiTable,
                   notifyQueue, alive, dispatchLog, lastMark, faults, detVars, consumerVars>>

\* the detector service alone: within the window observed, shorter than
\* AGGREGATION_INTERVAL_MINUTES, no aggregation cycle runs
Next ==
    \/ Tick
    \/ RunStartupCycle
    \/ IntervalFire
    \/ \E c \in Slots : CycleStep(c)

Spec == Init /\ [][Next]_vars

\* both services, fully configured: the aggregator's startup cycle runs beside
\* the detector, which starts a minute later on a store of steady snapshots
PipelineInit ==
    /\ env = [groq |-> TRUE, openai |-> TRUE, notifyUrl |-> TRUE]
    /\ Started(Epoch + 2, StoreAfter(HISTORICAL_WINDOWS - 2, "normal"))

PipelineNext ==
    \/ Tick
    \/ StartAggregation
    \/ AggregateData
    \/ StoreAggregatedSummaries
    \/ RunStartupCycle
    \/ IntervalFire
    \/ \E c \in Slots : CycleStep(c)

\* the event loop runs every continuation that is ready, and every external
\* call returns or throws
PipelineSpec ==
    /\ PipelineInit
    /\ [][PipelineNext]_vars
    /\ WF_vars(AggStep)
    /\ WF_vars(RunStartupCycle)
    /\ \A c \in Slots : WF_vars(CycleStep(c))

-----------------------------------------------------------------------------
(* The aggregator service alone, over its startup cycle and a timer period *)

AggregatorInit ==
    /\ env = [groq |-> TRUE, openai |-> TRUE, notifyUrl |-> TRUE]
    /\ \E store \in {EmptyStore, StoreAfter(1, "normal"), StoreAfter(2, "normal")} :
          Started(Epoch, store)

\* nothing runs until the interval timer of the aggregator fires
AwaitInterval ==
    /\ alive.aggregator
    /\ agg.pc = "idle"
    /\ agg.timer
    /\ agg.runs < MaxAggCycles
    /\ now < agg.nextRun
    /\ now' = agg.nextRun
    /\ UNCHANGED <<env, aggStore, agg, sched, cyc, recentAnomalies, aiStore, aiTable,
                   notifyQueue, alive, dispatchLog, lastMark, faults, detVars, consumerVars>>

AggregatorNext ==
    \/ Tick
    \/ AwaitInterval
    \/ StartAggregation
    \/ AggregateData
    \/ StoreAggregatedSummaries

\* the event loop runs the continuations of a cycle, every external call
\* returns or throws, and the interval timer fires
AggregatorSpec ==
    /\ AggregatorInit
    /\ [][AggregatorNext]_vars
    /\ WF_vars(AggStep)
    /\ WF_vars(AwaitInterval)

-----------------------------------------------------------------------------
(* Either service from app.listen to process.exit: the connection tests, the
   first cycle, the interval timer and the SIGTERM/SIGINT handler *)

\* the process record of a service
proc(s) == IF s = "detector" THEN sched ELSE agg

SetProc(s, rec) ==
    IF s = "detector" THEN sched' = rec /\ UNCHANGED agg
                      ELSE agg' = rec /\ UNCHANGED sched

\* both tests succeeded and the first cycle is called in the same turn
StartupPending(s) ==
    /\ alive[s]
    /\ proc(s).boot = "ready"
    /\ IF s = "detector" THEN sched.phase = "starting"
                          ELSE agg.pc = "idle" /\ agg.runs = 0

\* a connection test that failed is counted and taken for a success
AfterConnectionTest_ProceedsUnconnected(rec, store, connected) ==
    LET tests == 1 + IF store = "database" THEN rec.dbTests ELSE rec.redisTests
        tried == IF store = "database" THEN [rec EXCEPT !.dbTests = tests]
                                       ELSE [rec EXCEPT !.redisTests = tests]
    IN  IF store = "database" THEN [tried EXCEPT !.boot = "redisTest"]
                              ELSE [tried EXCEPT !.boot = "ready"]

\* one turn of a retry loop: the test of the store returned. A success leaves
\* the loop; a failure counts a retry and, while retries < maxRetries, awaits
\* the delay; after the loop, process.exit(1) unless connected
AfterConnectionTest(rec, store, connected) ==
    LET tests == 1 + IF store = "database" THEN rec.dbTests ELSE rec.redisTests
        tried == IF store = "database" THEN [rec EXCEPT !.dbTests = tests]
                                       ELSE [rec EXCEPT !.redisTests = tests]
    IN  IF connected
        THEN IF store = "database"
             THEN [tried EXCEPT !.boot = "redisTest", !.dbConnected = TRUE, !.dbOpen = TRUE]
             ELSE [tried EXCEPT !.boot = "ready", !.redisConnected = TRUE,
                                !.redisOpen = TRUE]
        ELSE IF tests < maxRetries
             THEN [tried EXCEPT !.waitedMs = @ + RetryDelayMs]
             ELSE [tried EXCEPT !.boot = "exited", !.exitCode = 1]

LifeFrame ==
    UNCHANGED <<now, env, cyc, recentAnomalies, dispatchLog, lastMark, faults,
                storeVars, detVars, consumerVars>>

\* testDbConnection returns; it cannot succeed on a pool that was ended
TestDbConnection(s) ==
    /\ alive[s]
    /\ proc(s).boot = "dbTest"
    /\ \E connected \in BOOLEAN :
        /\ connected => proc(s).closing \in {"none", "database"}
        /\ \E rec \in {AfterConnectionTest(proc(s), "database", connected)} :
            /\ SetProc(s, rec)
            /\ alive' = [alive EXCEPT ![s] = rec.boot # "exited"]
    /\ LifeFrame

\* testRedisConnection returns; it does not succeed once the handler has
\* called closeRedis
TestRedisConnection(s) ==
    /\ alive[s]
    /\ proc(s).boot = "redisTest"
    /\ \E connected \in BOOLEAN :
        /\ connected => proc(s).closing \in {"none", "database"}
        /\ \E rec \in {AfterConnectionTest(proc(s), "redis", connected)} :
           /\ SetProc(s, rec)
           /\ alive' = [alive EXCEPT ![s] = rec.boot # "exited"]
    /\ LifeFrame

\* SIGTERM or SIGINT is delivered: the handler logs and calls closeDatabase
Signal(s) ==
    /\ alive[s]
    /\ ~StartupPending(s)
    /\ proc(s).closing = "none"
    /\ SetProc(s, [proc(s) EXCEPT !.closing = "database"])
    /\ UNCHANGED alive
    /\ LifeFrame

\* pool.end() settled: the handler calls closeRedis
CloseDatabase(s) ==
    /\ alive[s]
    /\ ~StartupPending(s)
    /\ proc(s).closing = "database"
    /\ SetProc(s, [proc(s) EXCEPT !.closing = "redis", !.dbOpen = FALSE])
    /\ UNCHANGED alive
    /\ LifeFrame

\* redisClient.quit() settled: the handler calls process.exit(0)
CloseRedis(s) ==
    /\ alive[s]
    /\ ~StartupPending(s)
    /\ proc(s).closing = "redis"
    /\ SetProc(s, [proc(s) EXCEPT !.closing = "done", !.redisOpen = FALSE,
                                  !.boot = "exited", !.exitCode = 0])
    /\ alive' = [alive EXCEPT ![s] = FALSE]
    /\ LifeFrame

\* the service is started on a store that holds no snapshot yet
LifecycleStores == {EmptyStore}

\* app.listen has called the start function of the service observed
LifecycleInit ==
    /\ env = [groq |-> TRUE, openai |-> TRUE, notifyUrl |-> TRUE]
    /\ now = Epoch
    /\ aggStore \in LifecycleStores
    /\ agg = [pc |-> "idle", runs |-> 0, failures |-> 0, outcome |-> "none",
              failedAt |-> "", summary |-> MakeSummary(0, <<>>), nextRun |-> 0,
              timer |-> FALSE] @@ Booting
    /\ sched = [phase |-> "starting", nextFire |-> 0, started |-> 0] @@ Booting
    /\ cyc = [c \in Slots |-> IdleCycle]
    /\ recentAnomalies = <<>>
    /\ aiStore = EmptyStore
    /\ aiTable = {}
    /\ notifyQueue = <<>>
    /\ \E s \in Services : alive = [x \in Services |-> x = s]
    /\ dispatchLog = <<>>
    /\ lastMark = <<>>
    /\ faults = 0
    /\ DetQuiet

\* the interval timer of the service is installed
TimerInstalled(s) == IF s = "detector" THEN sched.phase = "interval" ELSE agg.timer

\* time passes, unless a timer is due; the connection tests and the first
\* cycle of the service observed take less than a minute together
LifeTick ==
    /\ \A s \in Services : alive[s] => TimerInstalled(s)
    /\ Tick

LifecycleNext ==
    \/ LifeTick
    \/ \E s \in Services : TestDbConnection(s)
    \/ \E s \in Services : TestRedisConnection(s)
    \/ \E s \in Services : Signal(s)
    \/ \E s \in Services : CloseDatabase(s)
    \/ \E s \in Services : CloseRedis(s)
    \/ RunStartupCycle
    \/ IntervalFire
    \/ \E c \in Slots : LoadSummaries(c)
    \/ AwaitInterval
    \/ StartAggregation
    \/ AggregateData
    \/ StoreAggregatedSummaries

\* every test and every external call returns, the event loop runs every
\* continuation that is ready, the timers fire and time passes; a signal may
\* never come
LifecycleSpec ==
    /\ LifecycleInit
    /\ [][LifecycleNext]_vars
    /\ WF_vars(LifeTick)
    /\ \A s \in Services : WF_vars(TestDbConnection(s) \/ TestRedisConnection(s))
    /\ \A s \in Services : WF_vars(CloseDatabase(s) \/ CloseRedis(s))
    /\ WF_vars(RunStartupCycle \/ IntervalFire)
    /\ \A c \in Slots : WF_vars(LoadSummaries(c))
    /\ WF_vars(AggStep)
    /\ WF_vars(AwaitInterval)

-----------------------------------------------------------------------------
(* aggregateData as a pure function: the spikes flagged in a snapshot *)

\* a row of metricsSummary, as far as the spike checks read it
SpikeRow(svc, req, err, p95, cpu, mem) ==
    [service |-> svc, totalRequests |-> req, totalErrors |-> err,
     p95Latency |-> p95, avgCpu |-> cpu, avgMemory |-> mem]

\* m.totalRequests > 0 ? (m.totalErrors / m.totalRequests) * 100 : 0
errorRateOf(m) ==
    IF m.totalRequests > 0 THEN RMul(Rat(m.totalErrors, m.totalRequests), RInt(100))
    ELSE RInt(0)

\* the entry pushed to anomalousSpikes
Spike(type, m, value, threshold, timestamp) ==
    [type |-> type, service |-> m.service, value |-> value,
     threshold |-> threshold, timestamp |-> timestamp]

\* the entries one forEach pass pushes, in the order of metricsSummary
SpikePass(metricsSummary, test(_), spike(_)) ==
    LET hit == SelectSeq(metricsSummary, test)
    IN  [i \in 1..Len(hit) |-> spike(hit[i])]

\* a value at its threshold is flagged as well
anomalousSpikes_AtThreshold(metricsSummary, timestamp) ==
    LET rateHigh(m) == ~RLess(errorRateOf(m), RInt(5))
        rateSpike(m) == Spike("high_error_rate", m, errorRateOf(m), 5, timestamp)
        slow(m) == m.p95Latency >= 1000
        slowSpike(m) == Spike("high_latency", m, m.p95Latency, 1000, timestamp)
        cpuHigh(m) == m.avgCpu >= 80
        cpuSpike(m) == Spike("high_cpu", m, m.avgCpu, 80, timestamp)
        memHigh(m) == m.avgMemory >= 85
        memSpike(m) == Spike("high_memory", m, m.avgMemory, 85, timestamp)
    IN  SpikePass(metricsSummary, rateHigh, rateSpike)
            \o SpikePass(metricsSummary, slow, slowSpike)
            \o SpikePass(metricsSummary, cpuHigh, cpuSpike)
            \o SpikePass(metricsSummary, memHigh, memSpike)

\* the four forEach passes of aggregateData over metricsSummary: error rate
\* > 5, p95Latency > 1000, avgCpu > 80, avgMemory > 85
anomalousSpikes(metricsSummary, timestamp) ==
    LET rateHigh(m) == RGreater(errorRateOf(m), RInt(5))
        rateSpike(m) == Spike("high_error_rate", m, errorRateOf(m), 5, timestamp)
        slow(m) == m.p95Latency > 1000
        slowSpike(m) == Spike("high_latency", m, m.p95Latency, 1000, timestamp)
        cpuHigh(m) == m.avgCpu > 80
        cpuSpike(m) == Spike("high_cpu", m, m.avgCpu, 80, timestamp)
        memHigh(m) == m.avgMemory > 85
        memSpike(m) == Spike("high_memory", m, m.avgMemory, 85, timestamp)
    IN  SpikePass(metricsSummary, rateHigh, rateSpike)
            \o SpikePass(metricsSummary, slow, slowSpike)
            \o SpikePass(metricsSummary, cpuHigh, cpuSpike)
            \o SpikePass(metricsSummary, memHigh, memSpike)

\* the rows getMetricsData can return for a service: no traffic, traffic with
\* no errors, with exactly 5% and with 5.5% of errors, and latency, CPU and
\* memory at and just above their thresholds
SpikeRows(svc) ==
    {SpikeRow(svc, req, err, p95, cpu, mem) :
        req \in {0, 100, 200}, err \in {0, 5, 11},
        p95 \in {1000, 1001}, cpu \in {80, 81}, mem \in {85, 86}}

\* GROUP BY service ORDER BY service: one row per service, in order, for no
\* service, one or two
SpikeInputs ==
    {<<>>} \cup {<<a>> : a \in SpikeRows("a")}
           \cup {<<a, b>> : a \in SpikeRows("a"), b \in SpikeRows("b")}

SpikeInit ==
    /\ \E metricsSummary \in SpikeInputs :
          currentSummary = [timestamp |-> Epoch, metrics |-> metricsSummary]
    /\ historicalSummaries = <<>>
    /\ detected = [done |-> FALSE]
    /\ ConsumerQuiet
    /\ now = Epoch
    /\ env = [groq |-> TRUE, openai |-> TRUE, notifyUrl |-> TRUE]
    /\ aggStore = EmptyStore
    /\ agg = AggIdle
    /\ sched = SchedIdle
    /\ cyc = [c \in Slots |-> IdleCycle]
    /\ recentAnomalies = <<>>
    /\ aiStore = EmptyStore
    /\ aiTable = {}
    /\ notifyQueue = <<>>
    /\ alive = [detector |-> TRUE, aggregator |-> TRUE]
    /\ dispatchLog = <<>>
    /\ lastMark = <<>>
    /\ faults = 0

\* aggregateData flags the spikes of the rows it was given
FlagSpikes ==
    /\ ~detected.done
    /\ detected' = [done |-> TRUE,
                    anomalousSpikes |-> anomalousSpikes(currentSummary.metrics,
                                                        currentSummary.timestamp)]
    /\ UNCHANGED <<historicalSummaries, currentSummary>>
    /\ UNCHANGED <<procVars, consumerVars>>

SpikeNext == FlagSpikes

SpikeSpec == SpikeInit /\ [][SpikeNext]_vars

-----------------------------------------------------------------------------
(* Both services, the detector starting as a timer fire of the aggregator is
   due; any call the detector awaits may never return *)

\* the interval timer of the aggregator is due
AggTimerDue ==
    /\ alive.aggregator
    /\ agg.timer
    /\ agg.pc = "idle"
    /\ agg.runs < MaxAggCycles
    /\ now >= agg.nextRun

\* the aggregator wrote its last snapshot an interval before Epoch
HangInit ==
    /\ env = [groq |-> TRUE, openai |-> TRUE, notifyUrl |-> TRUE]
    /\ now = Epoch
    /\ aggStore = StoreAfter(HISTORICAL_WINDOWS - 1, "errors")
    /\ agg = [AggIdle EXCEPT !.timer = TRUE, !.nextRun = Epoch, !.runs = 1,
                             !.outcome = "complete"]
    /\ sched = SchedIdle
    /\ cyc = [c \in Slots |-> IdleCycle]
    /\ recentAnomalies = <<>>
    /\ aiStore = EmptyStore
    /\ aiTable = {}
    /\ notifyQueue = <<>>
    /\ alive = [detector |-> TRUE, aggregator |-> TRUE]
    /\ dispatchLog = <<>>
    /\ lastMark = <<>>
    /\ faults = 0
    /\ DetQuiet

\* time passes, unless a timer of either service is due
HangTick ==
    /\ ~AggTimerDue
    /\ Tick

\* a call the detection cycle awaited returned without an error
Returns(c) ==
    /\ faults' = faults
    /\ \/ LoadSummaries(c)
       \/ FetchContext(c)
       \/ Analyze(c)
       \/ Persist(c)
       \/ NotifySucceeds(c)

HangNext ==
    \/ HangTick
    \/ StartAggregation
    \/ AggregateData
    \/ StoreAggregatedSummaries
    \/ RunStartupCycle
    \/ IntervalFire
    \/ \E c \in Slots : Returns(c)

\* the aggregator's event loop runs and its calls return or throw; a call the
\* detector awaits returns or hangs
HangSpec ==
    /\ HangInit
    /\ [][HangNext]_vars
    /\ WF_vars(AggStep)

-----------------------------------------------------------------------------
(* The detector as a pure function: inputs drawn from the profiles *)

\* histories of one repeated profile, longer than the mixed ones
SteadyHistories == {[i \in 1..n |-> p] : n \in (MaxHist + 1)..MaxSteadyHist, p \in Profiles}

DetInit ==
    /\ \E ps \in SeqsUpTo(Profiles, MaxHist) \cup SteadyHistories :
          historicalSummaries = HistoryOf(ps)
    /\ \E p \in Profiles :
          currentSummary = MakeSummary(Len(historicalSummaries) + 1, ProfileMetrics[p])
    /\ detected = [done |-> FALSE]
    /\ ConsumerQuiet
    /\ now = Epoch
    /\ env = [groq |-> TRUE, openai |-> TRUE, notifyUrl |-> TRUE]
    /\ aggStore = EmptyStore
    /\ agg = AggIdle
    /\ sched = SchedIdle
    /\ cyc = [c \in Slots |-> IdleCycle]
    /\ recentAnomalies = <<>>
    /\ aiStore = EmptyStore
    /\ aiTable = {}
    /\ notifyQueue = <<>>
    /\ alive = [detector |-> TRUE, aggregator |-> TRUE]
    /\ dispatchLog = <<>>
    /\ lastMark = <<>>
    /\ faults = 0

\* run the four exported detect functions on the inputs
Detect ==
    /\ ~detected.done
    /\ detected' =
          [done |-> TRUE,
           errorRate |-> detectErrorRateAnomaly(historicalSummaries, currentSummary),
           latency   |-> detectLatencyAnomaly(historicalSummaries, currentSummary),
           volume    |-> detectVolumeAnomaly(historicalSummaries, currentSummary),
           any       |-> detectAnomalies(historicalSummaries, currentSummary)]
    /\ UNCHANGED <<historicalSummaries, currentSummary>>
    /\ UNCHANGED <<procVars, consumerVars>>

DetNext == Detect

DetSpec == DetInit /\ [][DetNext]_vars

-----------------------------------------------------------------------------
(* The cooldown table on its own: marks and clock ticks in any order *)

\* the anomalies whose keys are marked and queried
GovernedAnomalies ==
    [metric : {"error_rate", "latency"}, severity : {"medium", "high"}]

CooldownInit ==
    /\ env = [groq |-> TRUE, openai |-> TRUE, notifyUrl |-> TRUE]
    /\ Started(Epoch, EmptyStore)

\* markAsAnalyzed(getAnomalyKey(anomaly))
MarkAnomaly ==
    /\ \E anomaly \in GovernedAnomalies :
          /\ recentAnomalies' =
                markAsAnalyzed(recentAnomalies, getAnomalyKey(anomaly), now)
          /\ lastMark' = (getAnomalyKey(anomaly) :> now) @@ lastMark
    /\ UNCHANGED <<now, env, aggStore, agg, sched, cyc, aiStore, aiTable,
                   notifyQueue, alive, dispatchLog, faults, detVars, consumerVars>>

\* wasAnalyzedRecently(getAnomalyKey(anomaly)): a read of the table
CheckAnomaly ==
    /\ \E anomaly \in GovernedAnomalies :
          detected' = [done |-> TRUE, key |-> getAnomalyKey(anomaly),
                       recent |-> wasAnalyzedRecently(recentAnomalies,
                                                      getAnomalyKey(anomaly), now)]
    /\ UNCHANGED <<procVars, historicalSummaries, currentSummary, consumerVars>>

CooldownNext == MarkAnomaly \/ CheckAnomaly \/ Tick

CooldownSpec == CooldownInit /\ [][CooldownNext]_vars

-----------------------------------------------------------------------------
(* getRecentSummaries on its own: stores left by earlier aggregation cycles,
   read while their entries expire *)

SummaryTtlTicks == TicksOfSeconds(SummaryTtlSeconds)

\* the time at which reading starts
RecentEpoch == Epoch + SummaryTtlTicks

\* The times of earlier storeAggregatedSummaries calls: one whose entries have
\* expired when reading starts, two whose entries expire while the store is
\* read, and two recent ones.
WriteTimes ==
    { RecentEpoch - SummaryTtlTicks - 2, RecentEpoch - SummaryTtlTicks + 1,
      RecentEpoch - SummaryTtlTicks + 2, RecentEpoch - AggIntervalTicks, RecentEpoch }

\* The store after storeAggregatedSummaries ran at the times given.  With
\* latestWritten false the setEx of aggregated:latest failed in the newest of
\* them, after its timestamp key was written.
StoreWritten(times, latestWritten) ==
    LET snap(t) == Entry(MakeSummary(t, ProfileMetrics["normal"]), SummaryTtlSeconds, t)
        newest == CHOOSE t \in times : \A u \in times : u <= t
        earlier == times \ {newest}
    IN  [byTime |-> [t \in times |-> snap(t)],
         latest |-> IF times = {} THEN <<>>
                    ELSE IF latestWritten THEN <<snap(newest)>>
                    ELSE IF earlier = {} THEN <<>>
                    ELSE <<snap(CHOOSE t \in earlier : \A u \in earlier : u <= t)>>]

WrittenStores == {StoreWritten(times, w) : times \in SUBSET WriteTimes, w \in BOOLEAN}

RecentInit ==
    /\ env = [groq |-> TRUE, openai |-> TRUE, notifyUrl |-> TRUE]
    /\ \E store \in WrittenStores : Started(RecentEpoch, store)

\* historicalSummaries = await getRecentSummaries(count)
GetRecent ==
    /\ \E count \in {1, 2, HISTORICAL_WINDOWS}, enumeration \in {"ok", "fails", "down"} :
          /\ historicalSummaries' = getRecentSummaries(aggStore, count, enumeration, now)
          /\ detected' = [done |-> TRUE, count |-> count, enumeration |-> enumeration]
    /\ UNCHANGED currentSummary
    /\ UNCHANGED <<procVars, consumerVars>>

\* the clock advances; what was read before is dropped
Elapse ==
    /\ now < RecentEpoch + MaxTime
    /\ now' = now + 1
    /\ historicalSummaries' = <<>>
    /\ detected' = [done |-> FALSE]
    /\ UNCHANGED <<env, aggStore, agg, sched, cyc, recentAnomalies, aiStore, aiTable,
                   notifyQueue, alive, dispatchLog, lastMark, faults, currentSummary,
                   consumerVars>>

RecentNext == GetRecent \/ Elapse

RecentSpec == RecentInit /\ [][RecentNext]_vars

-----------------------------------------------------------------------------
(* Properties of the detector *)

\* C1: for every anomaly key, two calls of analyzeAnomaly are never less than
\* ANOMALY_COOLDOWN_MINUTES apart, whatever the schedule of detection ticks,
\* overlapping cycles included.
C1_AtMostOnePerWindow ==
    \A i \in DOMAIN dispatchLog : \A j \in DOMAIN dispatchLog :
        (i < j /\ dispatchLog[i].key = dispatchLog[j].key)
            => dispatchLog[j].at - dispatchLog[i].at >= CooldownTicks

\* C2: once a key was marked at time t and not marked again,
\* wasAnalyzedRecently returns true while now - t is below the cooldown window
\* and false from then on.
C2_CooldownIdempotence ==
    \A k \in DOMAIN lastMark :
        wasAnalyzedRecently(recentAnomalies, k, now) <=> (now - lastMark[k] < CooldownTicks)

C2_Witness ==
    \E k \in DOMAIN lastMark :
        /\ now - lastMark[k] >= CooldownTicks
        /\ ~wasAnalyzedRecently(recentAnomalies, k, now)
        /\ \E c \in Slots : cyc[c].key = k /\ cyc[c].outcome = "suppressed"

\* the step in which analyzeAnomaly throws and cycle c ends
AnalysisFailureStep(c) ==
    /\ cyc[c].pc # "idle"
    /\ cyc'[c].pc = "idle"
    /\ cyc'[c].failedAt = "analyze"

\* C3 as stated: when no provider is configured or all calls fail, the cycle
\* ends with nothing persisted and nothing sent, and the key's cooldown entry
\* is marked, so that the key counts as analysed recently.
C3_FailureMarksCooldown ==
    [][\A c \in Slots : AnalysisFailureStep(c) =>
          /\ aiStore' = aiStore /\ aiTable' = aiTable /\ notifyQueue' = notifyQueue
          /\ wasAnalyzedRecently(recentAnomalies', cyc[c].key, now)]_vars

\* C3, amended: when no provider is configured or all calls fail, the cycle
\* ends with nothing persisted and nothing sent, and the cooldown table is left
\* as it was: the failed cycle does not mark the key.
C3_FailureLeavesCooldown ==
    [][\A c \in Slots : AnalysisFailureStep(c) =>
          /\ aiStore' = aiStore /\ aiTable' = aiTable /\ notifyQueue' = notifyQueue
          /\ recentAnomalies' = recentAnomalies
          /\ ~cyc'[c].marked /\ ~cyc'[c].notifyCalled]_vars

C3_Witness ==
    \E c \in Slots :
        /\ cyc[c].pc = "idle" /\ cyc[c].failedAt = "analyze"
        /\ Len(cyc[c].calls) = 2
        /\ ~wasAnalyzedRecently(recentAnomalies, cyc[c].key, now)

\* the calls analyzeAnomaly made, and what it returned, follow the fallback order
FallbackOrder(calls, provider, throws) ==
    /\ env.groq => (calls # <<>> /\ calls[1].provider = "groq")
    /\ \A i \in DOMAIN calls :
          calls[i].provider = "openai" =>
              /\ env.openai
              /\ (env.groq => (i = 2 /\ ~calls[1].ok))
    /\ \A i \in DOMAIN calls : calls[i].ok => i = Len(calls)
    /\ ~throws => (calls # <<>> /\ calls[Len(calls)].ok
                                 /\ calls[Len(calls)].provider = provider)
    /\ throws <=> (\A i \in DOMAIN calls : ~calls[i].ok)
    /\ throws => /\ (env.groq => \E i \in DOMAIN calls : calls[i].provider = "groq")
                 /\ (env.openai => \E i \in DOMAIN calls : calls[i].provider = "openai")

\* C4: Groq is called first when configured; OpenAI is called only when Groq is
\* not configured or its call failed, never after a Groq success; the provider
\* returned is the one whose call succeeded; analyzeAnomaly throws only when no
\* configured provider succeeded.
C4_FallbackOrder ==
    /\ \A groqOk \in BOOLEAN, openaiOk \in BOOLEAN :
          LET r == analyzeAnomaly(groqOk, openaiOk)
          IN  FallbackOrder(r.calls, r.provider, r.throws)
    /\ \A c \in Slots :
          cyc[c].provider # "" => FallbackOrder(cyc[c].calls, cyc[c].provider, FALSE)

C4_Witness ==
    \E c \in Slots :
        /\ cyc[c].provider = "openai"
        /\ Len(cyc[c].calls) = 2
        /\ cyc[c].calls[1] = [provider |-> "groq", ok |-> FALSE]

\* C5: when saveAIAnalysis fails after a successful analysis the cycle is not
\* aborted: the Redis record stays, the key is marked and sendNotification is
\* called in the same cycle.
C5_DatabaseFailureTolerated ==
    \A c \in Slots :
        cyc[c].dbFailed =>
            /\ cyc[c].failedAt # "dbSave"
            /\ cyc[c].redisSaved => cyc[c].timestamp \in DOMAIN aiStore.byTime
            /\ cyc[c].marked
            /\ cyc[c].key \in DOMAIN lastMark /\ lastMark[cyc[c].key] >= cyc[c].timestamp
            /\ cyc[c].notifyCalled
            /\ env.notifyUrl =>
                  \/ cyc[c].pc = "notify"
                  \/ cyc[c].notified
                  \/ cyc[c].failedAt = "notify"

C5_Witness ==
    \E c \in Slots :
        /\ cyc[c].dbFailed /\ cyc[c].redisSaved
        /\ cyc[c].timestamp \in DOMAIN aiStore.byTime
        /\ cyc[c].notified

\* C6: a failed sendNotification does not leave the detection cycle: the
\* record stays persisted, the key stays marked, the cycle has ended and the
\* detector goes on running its ticks.
C6_NotifyFailureContained ==
    \A c \in Slots :
        cyc[c].failedAt = "notify" =>
            /\ alive.detector
            /\ cyc[c].pc = "idle" /\ cyc[c].outcome = "error"
            /\ cyc[c].dbSaved => AnalysisData(cyc[c]) \in aiTable
            /\ cyc[c].redisSaved => cyc[c].timestamp \in DOMAIN aiStore.byTime
            /\ cyc[c].marked
            /\ cyc[c].key \in DOMAIN lastMark /\ lastMark[cyc[c].key] >= cyc[c].timestamp

C6_Witness ==
    \E c \in Slots :
        /\ cyc[c].failedAt = "notify"
        /\ AnalysisData(cyc[c]) \in aiTable
        /\ sched.started > cyc[c].startsAtEnd

\* C7: whatever step fails, no rejection leaves runAggregation or
\* runAnomalyDetection, both services stay up, and every cycle that was
\* started ends back in Idle.
C7_CyclesEndIdle ==
    /\ [](alive.detector /\ alive.aggregator)
    /\ \A c \in Slots : [](cyc[c].pc # "idle" => <>(cyc[c].pc = "idle"))
    /\ [](agg.pc # "idle" => <>(agg.pc = "idle"))

C7_Witness ==
    /\ alive.detector /\ alive.aggregator
    /\ agg.pc = "idle" /\ agg.outcome = "error"
    /\ \E c \in Slots : cyc[c].pc = "idle" /\ cyc[c].outcome = "error"
    /\ \E c \in Slots : cyc[c].pc # "idle"

\* C8: with fewer than 3 history snapshots none of detectAnomalies,
\* detectErrorRateAnomaly, detectLatencyAnomaly and detectVolumeAnomaly reports
\* an anomaly, however extreme the current snapshot is.
C8_InsufficientHistory ==
    (detected.done /\ Len(historicalSummaries) < 3) =>
        /\ ~detected.errorRate.isAnomaly
        /\ ~detected.latency.isAnomaly
        /\ ~detected.volume.isAnomaly
        /\ ~detected.any.isAnomaly

\* a two-snapshot baseline with samples, against a current snapshot whose
\* error rate is above 20% and whose P95 latency is above 2000 ms
C8_Witness ==
    /\ detected.done
    /\ Len(historicalSummaries) = 2
    /\ Len(HistErrorRates(historicalSummaries)) = 2
    /\ RGreater(CurrentErrorRate(currentSummary), RInt(20))
    /\ RGreater(CurrentLatency(currentSummary), RInt(2000))

\* C9: detectAnomalies returns the first result in the order error rate,
\* latency, request volume: the error-rate anomaly whenever that check
\* triggers, a latency anomaly only when error rate does not trigger, a volume
\* anomaly only when neither of the others triggers, and nothing otherwise.
C9_PriorityOrdering ==
    detected.done =>
        /\ detected.errorRate.isAnomaly =>
              (detected.any = detected.errorRate /\ detected.any.metric = "error_rate")
        /\ (~detected.errorRate.isAnomaly /\ detected.latency.isAnomaly) =>
              detected.any = detected.latency
        /\ (~detected.errorRate.isAnomaly /\ ~detected.latency.isAnomaly) =>
              detected.any = detected.volume
        /\ (detected.any.isAnomaly /\ detected.any.metric = "request_volume") =>
              (~detected.errorRate.isAnomaly /\ ~detected.latency.isAnomaly)

\* all three checks trigger on their own and the error-rate anomaly is returned
C9_Witness ==
    /\ detected.done
    /\ detected.errorRate.isAnomaly
    /\ detected.latency.isAnomaly
    /\ detected.volume.isAnomaly
    /\ detected.any.metric = "error_rate"

\* The error-rate trigger stated on the inputs.  The samples are the rows of
\* the history with totalRequests > 0; with n samples of sum S and sum of
\* squares Q the population variance is (n*Q - S^2) / n^2, so |z| > 2 reads
\* n*Q - S^2 > 0 and (n*cur - S)^2 > 4 * (n*Q - S^2).
SampleIndex(hist) ==
    {ij \in UNION {{<<i, j>> : j \in 1..Len(hist[i].metrics)} : i \in 1..Len(hist)} :
        hist[ij[1]].metrics[ij[2]].totalRequests > 0}

SampleRate(hist, ij) ==
    Rat(100 * hist[ij[1]].metrics[ij[2]].totalErrors,
        hist[ij[1]].metrics[ij[2]].totalRequests)

RECURSIVE SumOver(_, _, _)
SumOver(hist, idx, squared) ==
    IF idx = {} THEN <<0, 1>>
    ELSE LET ij == CHOOSE x \in idx : TRUE
             r == SampleRate(hist, ij)
         IN  RAdd(IF squared THEN RMul(r, r) ELSE r,
                  SumOver(hist, idx \ {ij}, squared))

AggregateRate(cur) ==
    IF SumRequests(cur.metrics) > 0
    THEN Rat(100 * SumErrors(cur.metrics), SumRequests(cur.metrics))
    ELSE <<0, 1>>

ZAbove2(hist, cur) ==
    LET idx == SampleIndex(hist)
        n == RInt(Cardinality(idx))
        S == SumOver(hist, idx, FALSE)
        Q == SumOver(hist, idx, TRUE)
        nVar == RSub(RMul(n, Q), RMul(S, S))
        nDiff == RSub(RMul(n, AggregateRate(cur)), S)
    IN  /\ RGreater(nVar, <<0, 1>>)
        /\ RGreater(RMul(nDiff, nDiff), RMul(<<4, 1>>, nVar))

ClaimedTrigger(hist, cur) ==
    ZAbove2(hist, cur) \/ RGreater(AggregateRate(cur), <<5, 1>>)

\* C10 as claimed: for every history of at least 3 snapshots the error-rate
\* detector reports an anomaly exactly when |zScore| > 2 or the current
\* aggregate error rate is above 5%.
C10_TriggerAsClaimed ==
    (detected.done /\ Len(historicalSummaries) >= 3) =>
        (detected.errorRate.isAnomaly
            <=> ClaimedTrigger(historicalSummaries, currentSummary))

\* C10 as amended: the equivalence holds when the history has at least one
\* per-service row with totalRequests > 0; with no such row the detector
\* reports nothing, whatever the current error rate.
C10_Trigger ==
    (detected.done /\ Len(historicalSummaries) >= 3) =>
        (detected.errorRate.isAnomaly
            <=> /\ SampleIndex(historicalSummaries) # {}
                /\ ClaimedTrigger(historicalSummaries, currentSummary))

\* a baseline with samples and zero spread, so z is 0, and a current error
\* rate above 5%: the absolute floor alone triggers
C10_Witness ==
    /\ detected.done
    /\ Len(historicalSummaries) >= 3
    /\ SampleIndex(historicalSummaries) # {}
    /\ ~ZAbove2(historicalSummaries, currentSummary)
    /\ RGreater(AggregateRate(currentSummary), <<5, 1>>)
    /\ detected.errorRate.isAnomaly

-----------------------------------------------------------------------------
(* Severity and z-score properties of the detect functions *)

\* Statistics of a list of samples stated on sums.  With n samples of sum S and
\* sum of squares Q:  n^2 * variance = n*Q - S^2  and  n * (value - mean) =
\* n*value - S,  so that z = (n*value - S) / sqrt(n*Q - S^2).
SumOfSquares(values) ==
    RSum([i \in 1..Len(values) |-> RMul(values[i], values[i])])

ScaledVariance(values) ==
    RSub(RMul(RInt(Len(values)), SumOfSquares(values)),
         RMul(RSum(values), RSum(values)))

ScaledDistance(values, value) ==
    RSub(RMul(RInt(Len(values)), value), RSum(values))

RSame(a, b) == ~RLess(a, b) /\ ~RLess(b, a)

\* |z| > k.  With a spread of 0 the z-score is 0.
ZBeyond(values, value, k) ==
    /\ RGreater(ScaledVariance(values), <<0, 1>>)
    /\ RGreater(RMul(ScaledDistance(values, value), ScaledDistance(values, value)),
                RMul(RMul(k, k), ScaledVariance(values)))

\* value = mean + 3 * stddev with stddev > 0
AtThreeSigma(values, value) ==
    /\ RGreater(ScaledVariance(values), <<0, 1>>)
    /\ RGreater(ScaledDistance(values, value), <<0, 1>>)
    /\ RSame(RMul(ScaledDistance(values, value), ScaledDistance(values, value)),
             RMul(<<9, 1>>, ScaledVariance(values)))

\* a reported z-score equal to k
ZScoreIs(z, k) ==
    /\ RSame(RMul(z.diff, z.diff), RMul(RMul(k, k), z.sq))
    /\ (k[1] > 0 => z.diff[1] > 0)

\* the ladder: critical if value > critAbs or |z| > 3, else high if
\* value > highAbs or |z| > 2.5, else medium
ClaimedSeverity(values, value, critAbs, highAbs) ==
    IF RGreater(value, RInt(critAbs)) \/ ZBeyond(values, value, <<3, 1>>)
    THEN "critical"
    ELSE IF RGreater(value, RInt(highAbs)) \/ ZBeyond(values, value, <<5, 2>>)
    THEN "high"
    ELSE "medium"

\* C11: a returned error-rate anomaly has severity critical if current > 20 or
\* |z| > 3, otherwise high if current > 10 or |z| > 2.5, otherwise medium; it
\* is never low.
C11_SeverityLadder ==
    (detected.done /\ detected.errorRate.isAnomaly) =>
        /\ detected.errorRate.severity =
              ClaimedSeverity(HistErrorRates(historicalSummaries),
                              AggregateRate(currentSummary), 20, 10)
        /\ detected.errorRate.severity # "low"

\* an error-rate anomaly that is high through its z-score alone: the current
\* rate is not above 10%
C11_Witness ==
    /\ detected.done
    /\ detected.errorRate.isAnomaly
    /\ detected.errorRate.severity = "high"
    /\ ~RGreater(AggregateRate(currentSummary), <<10, 1>>)

AllSamplesAre(hist, rate) ==
    /\ HistErrorRates(hist) # <<>>
    /\ \A i \in 1..Len(HistErrorRates(hist)) : RSame(HistErrorRates(hist)[i], rate)

-----------------------------------------------------------------------------
(* Properties of the cooldown table *)

\* C15: marking the key of (metric, s1) never changes what wasAnalyzedRecently
\* answers for the key of (metric, s2) with s2 different from s1.
C15_SeverityIndependence ==
    [][\A a1, a2 \in GovernedAnomalies :
          (/\ a1.metric = a2.metric
           /\ a1.severity # a2.severity
           /\ recentAnomalies' =
                 markAsAnalyzed(recentAnomalies, getAnomalyKey(a1), now))
          => (wasAnalyzedRecently(recentAnomalies', getAnomalyKey(a2), now')
                <=> wasAnalyzedRecently(recentAnomalies, getAnomalyKey(a2), now'))]_vars

\* (error_rate, medium) is marked and inside its window while
\* (error_rate, high) is not suppressed
C15_Witness ==
    /\ wasAnalyzedRecently(recentAnomalies,
          getAnomalyKey([metric |-> "error_rate", severity |-> "medium"]), now)
    /\ ~wasAnalyzedRecently(recentAnomalies,
          getAnomalyKey([metric |-> "error_rate", severity |-> "high"]), now)

-----------------------------------------------------------------------------
(* Properties of getRecentSummaries *)

\* the timestamps of the snapshots that can be read at time t: through a
\* timestamp key or through aggregated:latest, expired entries left out
AvailableStamps(store, t) ==
    {store.byTime[k].data.timestamp : k \in {j \in DOMAIN store.byTime : store.byTime[j].exp > t}}
        \cup {store.latest[i].data.timestamp : i \in {j \in DOMAIN store.latest : store.latest[j].exp > t}}

\* the n largest members of a set of numbers
Largest(S, n) == {x \in S : Cardinality({y \in S : y > x}) < n}

C18_TtlExpiry ==
    detected.done =>
        \A i \in 1..Len(historicalSummaries) :
            \/ \E k \in DOMAIN aggStore.byTime :
                  /\ aggStore.byTime[k].data = historicalSummaries[i]
                  /\ now < k + SummaryTtlTicks
            \/ /\ aggStore.latest # <<>>
               /\ aggStore.latest[1].data = historicalSummaries[i]
               /\ now < aggStore.latest[1].data.timestamp + SummaryTtlTicks

\* the store holds a snapshot that expired after reading began, under its key
\* and under aggregated:latest, and a read with the keys listed returns nothing
C18_Witness ==
    /\ detected.done
    /\ detected.enumeration = "ok"
    /\ now > RecentEpoch
    /\ aggStore.latest # <<>>
    /\ aggStore.latest[1].exp > RecentEpoch
    /\ aggStore.latest[1].exp <= now
    /\ aggStore.byTime # <<>>
    /\ historicalSummaries = <<>>

-----------------------------------------------------------------------------
(* Properties of the aggregation cycle *)

\* the step in which storeAggregatedSummaries returns and the cycle completes
SuccessfulStore ==
    /\ agg.pc = "store"
    /\ agg'.pc = "idle"
    /\ agg'.outcome = "complete"

\* C19 as claimed: a successful cycle adds exactly one entry, under the key of
\* the snapshot's own timestamp, and overwrites aggregated:latest with that
\* snapshot; storing the same snapshot again adds no further entry.
C19_KeyedBySnapshotTimestamp ==
    [][SuccessfulStore =>
          /\ agg.summary.timestamp \notin DOMAIN aggStore.byTime
          /\ DOMAIN aggStore'.byTime = DOMAIN aggStore.byTime \cup {agg.summary.timestamp}
          /\ aggStore'.byTime[agg.summary.timestamp].data = agg.summary
          /\ \A k \in DOMAIN aggStore.byTime : aggStore'.byTime[k] = aggStore.byTime[k]
          /\ Len(aggStore'.latest) = 1
          /\ aggStore'.latest[1].data = agg.summary
          /\ \A t \in now..(now + 1) :
                DOMAIN storeAggregatedSummaries(aggStore', agg.summary, t).byTime
                    = DOMAIN aggStore'.byTime]_vars

\* C19 as amended: a successful cycle adds exactly one entry, under the key of
\* the time at which storeAggregatedSummaries runs, which is not earlier than
\* the snapshot's timestamp, and overwrites aggregated:latest with that
\* snapshot; storing the same snapshot again overwrites the entry only at the
\* same instant, and at a later one adds a second entry.
C19_OneEntryPerCycle ==
    [][SuccessfulStore =>
          /\ now \notin DOMAIN aggStore.byTime
          /\ DOMAIN aggStore'.byTime = DOMAIN aggStore.byTime \cup {now}
          /\ aggStore'.byTime[now].data = agg.summary
          /\ agg.summary.timestamp <= now
          /\ \A k \in DOMAIN aggStore.byTime : aggStore'.byTime[k] = aggStore.byTime[k]
          /\ Len(aggStore'.latest) = 1
          /\ aggStore'.latest[1].data = agg.summary
          /\ DOMAIN storeAggregatedSummaries(aggStore', agg.summary, now).byTime
                = DOMAIN aggStore'.byTime
          /\ DOMAIN storeAggregatedSummaries(aggStore', agg.summary, now + 1).byTime
                = DOMAIN aggStore'.byTime \cup {now + 1}]_vars

\* a completed cycle whose snapshot lies under a key later than its timestamp
C19_Witness ==
    /\ agg.pc = "idle"
    /\ agg.outcome = "complete"
    /\ Len(aggStore.latest) = 1
    /\ aggStore.latest[1].data = agg.summary
    /\ \E k \in DOMAIN aggStore.byTime :
          /\ aggStore.byTime[k].data = agg.summary
          /\ k > agg.summary.timestamp

\* the step in which a raw-data query of aggregateData fails
QueryFailure ==
    /\ agg.pc = "aggregate"
    /\ agg'.outcome = "error"

\* C20: when a raw-data query fails the cycle ends at once with the store
\* unchanged and the process alive, and the next scheduled cycle runs.
C20_FailedQueryAbortsCycle ==
    /\ [][QueryFailure =>
             /\ aggStore' = aggStore
             /\ agg'.pc = "idle"
             /\ agg'.failedAt \in {"logs", "metrics", "traces"}
             /\ alive'.aggregator]_vars
    /\ (/\ agg.outcome = "error"
        /\ agg.failedAt \in {"logs", "metrics", "traces"}
        /\ agg.runs < MaxAggCycles) ~> (agg.outcome = "running")

\* the metrics query of the startup cycle failed over a store that holds
\* snapshots, and a further cycle is due
C20_Witness ==
    /\ agg.pc = "idle"
    /\ agg.outcome = "error"
    /\ agg.failedAt = "metrics"
    /\ agg.runs < MaxAggCycles
    /\ aggStore.latest # <<>>
    /\ alive.aggregator

-----------------------------------------------------------------------------
(* Startup, schedule and shutdown of the two services *)

\* the service has called its cycle function at least once
CycleBegan(s) == IF s = "detector" THEN sched.started > 0 ELSE agg.runs > 0

\* the tests of a store that failed and were followed by another attempt
RetriedTests(tests, connected) ==
    IF connected THEN tests - 1
    ELSE IF tests = 5 THEN 4 ELSE tests

\* C21: startup gating.  A service has begun a cycle only if the tests of the
\* raw store and of the snapshot store both succeeded; each store is tested at
\* most 5 times and 3000 ms are awaited after every failed test but the fifth;
\* the fifth failure of a store makes the process exit with code 1, and a
\* process that exited with code 1 has run no cycle.
C21_StartupGating ==
    \A s \in Services :
        LET p == proc(s)
        IN  /\ CycleBegan(s) => p.dbConnected /\ p.redisConnected
            /\ p.dbTests <= 5 /\ p.redisTests <= 5
            /\ p.waitedMs = 3000 * (RetriedTests(p.dbTests, p.dbConnected)
                                      + RetriedTests(p.redisTests, p.redisConnected))
            /\ (p.dbTests = 5 /\ ~p.dbConnected) => p.exitCode = 1
            /\ (p.redisTests = 5 /\ ~p.redisConnected) => p.exitCode = 1
            /\ p.exitCode = 1 =>
                    /\ ~CycleBegan(s)
                    /\ \/ p.dbTests = 5 /\ ~p.dbConnected
                       \/ p.redisTests = 5 /\ ~p.redisConnected

\* a service began its first cycle after the raw store answered on the fifth
\* test and the snapshot store on a retry
C21_Witness ==
    \E s \in Services :
        /\ CycleBegan(s)
        /\ proc(s).dbTests = 5
        /\ proc(s).redisTests > 1

\* a service gave up on the snapshot store and exited
C21_ExitWitness ==
    \E s \in Services :
        /\ proc(s).exitCode = 1
        /\ proc(s).dbConnected
        /\ proc(s).redisTests = 5

\* the number of cycles the service has begun
CyclesBegun(s) == IF s = "detector" THEN sched.started ELSE agg.runs

\* the next moment the interval timer of the service fires
NextTimerFire(s) == IF s = "detector" THEN sched.nextFire ELSE agg.nextRun

\* the interval of the service, in ticks
IntervalOf(s) == IF s = "detector" THEN IntervalTicks ELSE AggIntervalTicks

\* the first cycle of the service has returned
FirstCycleReturned(s) ==
    IF s = "detector" THEN sched.started >= 1 /\ sched.phase # "startup"
                      ELSE agg.runs > 1 \/ (agg.runs = 1 /\ agg.pc = "idle")

\* the cycles the bounds let the service begin
CycleBound(s) == IF s = "detector" THEN MaxStarts ELSE MaxAggCycles

\* the next cycle of the service is due within the time observed
DueInWindow(s) ==
    \/ CyclesBegun(s) = 0
    \/ (IF TimerInstalled(s) THEN NextTimerFire(s) ELSE now + IntervalOf(s)) <= Epoch + MaxTime

\* C22, the schedule: the first cycle is called in the turn in which the
\* second connection test succeeds; the timer exists from the moment the first
\* cycle returned, whatever its outcome; every later cycle begins exactly when
\* the timer is due and moves the timer one interval on.
C22_ScheduleSteps ==
    \A s \in Services :
        /\ StartupPending(s) => CyclesBegun(s)' = 1
        /\ (alive[s] /\ FirstCycleReturned(s)) => TimerInstalled(s)
        /\ (CyclesBegun(s) >= 1 /\ CyclesBegun(s)' > CyclesBegun(s)) =>
                /\ TimerInstalled(s)
                /\ now = NextTimerFire(s)
                /\ NextTimerFire(s)' = NextTimerFire(s) + IntervalOf(s)

\* C22: after a successful startup each service runs its first cycle at once
\* and then begins a new cycle at every interval for as long as the process
\* runs, whether the cycles before it completed or failed.
C22_FixedIntervalSchedule ==
    /\ [][C22_ScheduleSteps]_vars
    /\ \A s \in Services : \A k \in 0..3 :
            (/\ alive[s] /\ proc(s).boot = "ready"
             /\ CyclesBegun(s) = k /\ k < CycleBound(s) /\ DueInWindow(s))
                ~> (CyclesBegun(s) > k \/ ~alive[s])

\* the aggregator began its second cycle on time although its first cycle
\* failed, with no signal delivered
C22_Witness ==
    /\ agg.runs = 2
    /\ agg.failures = 1 /\ agg.outcome = "running"
    /\ agg.closing = "none"
    /\ now = Epoch + AggIntervalTicks

\* a step in which the service begins a cycle
CycleBegins(s) == CyclesBegun(s)' > CyclesBegun(s)

\* C23: from the moment the SIGTERM/SIGINT handler begins the interval timer
\* of the service starts no new cycle, and no cycle starts against a store connection that was closed;
\* the handler closes the raw-store and the snapshot-store connection and the
\* process exits.
C23_NoCycleAfterSignal ==
    /\ [][\A s \in Services :
              /\ (TimerInstalled(s) /\ CycleBegins(s)) => proc(s).closing = "none"
              /\ CycleBegins(s) => proc(s).dbOpen /\ proc(s).redisOpen]_vars
    /\ \A s \in Services :
            (alive[s] /\ proc(s).closing # "none")
                ~> (~alive[s] /\ (proc(s).exitCode = 0 =>
                                     ~proc(s).dbOpen /\ ~proc(s).redisOpen))

\* the snapshot the aggregation cycle built is the one stored under
\* aggregated:latest
SnapshotWritten ==
    /\ GetLatest(aggStore, now) # <<>>
    /\ GetLatest(aggStore, now)[1] = agg.summary

\* C24: while a detection cycle awaits an analysis call, returned or not, the
\* aggregator is not held up: a timer fire that is due starts the next
\* aggregation cycle at that very time, and the cycle runs to its end and,
\* unless one of its own calls failed, writes its snapshot.  No step other
\* than the return of the analysis call moves the waiting detection cycle.
C24_HangStallsOnlyItsCycle ==
    /\ [][\A c \in Slots :
              (cyc[c].pc = "analyze" /\ cyc'[c] # cyc[c]) => cyc'[c].pc \in {"persist", "idle"}]_vars
    /\ [][(agg.timer /\ agg'.runs > agg.runs) => now = agg.nextRun]_vars
    /\ \A c \in Slots : \A k \in 0..3 :
            (cyc[c].pc = "analyze" /\ AggTimerDue /\ agg.runs = k)
                ~> /\ agg.runs = k + 1
                   /\ agg.pc = "idle"
                   /\ agg.outcome = "complete" => SnapshotWritten

\* the analysis call dispatched by the startup cycle has not returned two
\* minutes later, and the aggregation cycle of Epoch has written its snapshot
C24_Witness ==
    /\ cyc[1].pc = "analyze"
    /\ sched.phase = "startup"
    /\ now = Epoch + 2
    /\ agg.runs = 2 /\ agg.outcome = "complete"
    /\ SnapshotWritten
    /\ agg.summary.timestamp = Epoch

-----------------------------------------------------------------------------
(* The cooldown table *)

\* C25: right after a call of markAsAnalyzed no entry of the cooldown table is
\* older than the cooldown window, the key marked is in the table with the time
\* of the call, and a call of wasAnalyzedRecently leaves the table as it was;
\* the table changes in no other step.
C25_CooldownGarbageCollection ==
    [][/\ lastMark' # lastMark =>
              /\ \A k \in DOMAIN recentAnomalies' :
                    now - recentAnomalies'[k] <= CooldownTicks
              /\ \A k \in DOMAIN lastMark' :
                    lastMark'[k] = now => /\ k \in DOMAIN recentAnomalies'
                                          /\ recentAnomalies'[k] = now
       /\ detected' # detected => recentAnomalies' = recentAnomalies
       /\ recentAnomalies' # recentAnomalies => lastMark' # lastMark]_vars

\* a call of markAsAnalyzed has purged the entry of a key marked more than a
\* window ago and kept one marked exactly a window ago
C25_Witness ==
    /\ \E k \in DOMAIN lastMark :
          /\ k \notin DOMAIN recentAnomalies
          /\ now - lastMark[k] > CooldownTicks
    /\ \E k \in DOMAIN recentAnomalies : now - recentAnomalies[k] = CooldownTicks
    /\ \E k \in DOMAIN recentAnomalies : recentAnomalies[k] = now
    /\ detected.done

-----------------------------------------------------------------------------
(* The analysis record in the fast store *)

\* the records getAIAnalysisFromRedis returns at time t
AnalysesReadAt(store, t) ==
    LET analyses == getAIAnalysisFromRedis(store, AnalysisLimit, t)
    IN  {analyses[i] : i \in DOMAIN analyses}

\* two records agree on each of the six fields
SameFields(a, b) ==
    /\ DOMAIN a = DOMAIN b
    /\ \A i \in DOMAIN AnalysisFields :
          AnalysisFields[i] \in DOMAIN a /\ a[AnalysisFields[i]] = b[AnalysisFields[i]]

-----------------------------------------------------------------------------
(* The spikes flagged in a snapshot *)

\* the entries of anomalousSpikes of a type for a service
SpikesOf(type, service) ==
    {i \in DOMAIN detected.anomalousSpikes :
        /\ detected.anomalousSpikes[i].type = type
        /\ detected.anomalousSpikes[i].service = service}

\* C27: anomalousSpikes holds one high_error_rate entry for a service exactly
\* when the service had requests and more than 5% of them were errors, one
\* high_latency entry exactly when its P95 latency is above 1000 ms, one
\* high_cpu entry exactly when its average CPU is above 80% and one
\* high_memory entry exactly when its average memory is above 85%; it holds
\* nothing else, and a service with no requests has no high_error_rate entry.
C27_SpikeThresholds ==
    detected.done =>
        LET rows == currentSummary.metrics
            count(type, m) == Cardinality(SpikesOf(type, m.service))
            is(flag) == IF flag THEN 1 ELSE 0
        IN  /\ \A i \in DOMAIN rows :
                  LET m == rows[i]
                  IN  /\ count("high_error_rate", m) =
                            is(m.totalRequests > 0
                                 /\ 100 * m.totalErrors > 5 * m.totalRequests)
                      /\ count("high_latency", m) = is(m.p95Latency > 1000)
                      /\ count("high_cpu", m) = is(m.avgCpu > 80)
                      /\ count("high_memory", m) = is(m.avgMemory > 85)
                      /\ m.totalRequests = 0 => count("high_error_rate", m) = 0
            /\ \A j \in DOMAIN detected.anomalousSpikes :
                  /\ detected.anomalousSpikes[j].type \in
                        {"high_error_rate", "high_latency", "high_cpu", "high_memory"}
                  /\ \E i \in DOMAIN rows :
                        rows[i].service = detected.anomalousSpikes[j].service

\* service a, with errors and no requests and every other value at its
\* threshold, is not flagged, while service b is flagged for all four
C27_Witness ==
    /\ detected.done
    /\ Len(currentSummary.metrics) = 2
    /\ currentSummary.metrics[1] = SpikeRow("a", 0, 11, 1000, 80, 85)
    /\ currentSummary.metrics[2] = SpikeRow("b", 200, 11, 1001, 81, 86)
    /\ Len(detected.anomalousSpikes) = 4
    /\ \A j \in 1..4 : detected.anomalousSpikes[j].service = "b"

-----------------------------------------------------------------------------
(* One detection cycle *)

\* the moves of a cycle from one awaited step to the next: the history load
\* (with detection and the cooldown check in its turn), the context fetch, the
\* provider call, the persistence attempt, the notification attempt
CycleOrder ==
    {<<"idle", "loading">>,
     <<"loading", "idle">>, <<"loading", "context">>,
     <<"context", "idle">>, <<"context", "analyze">>,
     <<"analyze", "idle">>, <<"analyze", "persist">>,
     <<"persist", "idle">>, <<"persist", "notify">>,
     <<"notify", "idle">>}

\* the cycle ended without an anomaly to analyse
EndsQuiet(rec) == rec.pc = "idle" /\ rec.outcome \in {"noHistory", "noAnomaly", "suppressed"}

\* C28: a detection cycle moves only from the history load to the context
\* fetch, from there to the provider call, the persistence attempt and the
\* notification attempt, in that order, and may end after any of them; a cycle
\* that finds no anomaly or whose anomaly is suppressed ends in the turn of its
\* history load, with no provider call dispatched, nothing persisted and no
\* notification attempted.
C28_CycleStepOrder ==
    [][\A c \in Slots :
          cyc'[c] # cyc[c] =>
              /\ <<cyc[c].pc, cyc'[c].pc>> \in CycleOrder
              /\ cyc'[c].pc = "persist" => cyc'[c].calls # <<>>
              /\ cyc'[c].pc = "notify" => cyc'[c].marked
              /\ EndsQuiet(cyc'[c]) =>
                    /\ cyc[c].pc = "loading"
                    /\ cyc'[c].calls = <<>>
                    /\ ~cyc'[c].redisSaved /\ ~cyc'[c].dbSaved /\ ~cyc'[c].dbFailed
                    /\ ~cyc'[c].notifyCalled /\ ~cyc'[c].notified
                    /\ dispatchLog' = dispatchLog
                    /\ aiStore' = aiStore /\ aiTable' = aiTable
                    /\ notifyQueue' = notifyQueue]_vars

\* one cycle went through every step and its notification was enqueued, and
\* another ended suppressed
C28_Witness ==
    \E c \in Slots : \E d \in Slots :
        /\ cyc[c].pc = "idle" /\ cyc[c].outcome = "complete"
        /\ cyc[c].calls # <<>> /\ cyc[c].redisSaved /\ cyc[c].dbSaved /\ cyc[c].notified
        /\ cyc[d].pc = "idle" /\ cyc[d].outcome = "suppressed"

\* C29: the cooldown table changes only in the step in which a cycle that
\* dispatched an analysis of the key reaches markAsAnalyzed, which sets the
\* entry of that key to the time of the step; a cycle that ends suppressed,
\* without an anomaly or without history leaves the table as it was.
C29_RefreshOnlyOnDispatch ==
    [][/\ recentAnomalies' # recentAnomalies =>
              \E c \in Slots :
                  /\ cyc[c].pc = "persist" /\ cyc'[c].marked
                  /\ \E i \in DOMAIN dispatchLog : dispatchLog[i].key = cyc[c].key
                  /\ recentAnomalies'[cyc[c].key] = now
       /\ \A c \in Slots :
              (cyc'[c] # cyc[c] /\ EndsQuiet(cyc'[c])) => recentAnomalies' = recentAnomalies]_vars

\* a cycle detected the anomaly again and was suppressed, and the entry of its
\* key still carries the time of the earlier mark
C29_Witness ==
    \E c \in Slots :
        /\ cyc[c].pc = "idle" /\ cyc[c].outcome = "suppressed"
        /\ cyc[c].key \in DOMAIN recentAnomalies
        /\ recentAnomalies[cyc[c].key] = lastMark[cyc[c].key]
        /\ \E d \in Slots : cyc[d].marked /\ cyc[d].key = cyc[c].key

\* the number of timestamp keys under ai:analysis:
AnalysisKeys == Cardinality(DOMAIN aiStore.byTime)

\* C30: no step dispatches more than one analysis, stores more than one
\* record or enqueues more than one notification; an analysis is dispatched
\* only by a cycle leaving its context fetch, a record stored only by a cycle
\* leaving its persistence step and a notification enqueued only by a cycle
\* leaving its notification step, so that dispatches, records and
\* notifications never outnumber the cycles begun.
C30_AtMostOnePerCycle ==
    /\ [][/\ Len(dispatchLog') <= Len(dispatchLog) + 1
          /\ Cardinality(aiTable') <= Cardinality(aiTable) + 1
          /\ Cardinality(DOMAIN aiStore'.byTime) <= AnalysisKeys + 1
          /\ Len(notifyQueue') <= Len(notifyQueue) + 1
          /\ dispatchLog' # dispatchLog =>
                 \E c \in Slots : cyc[c].pc = "context" /\ cyc'[c].pc = "analyze"
          /\ (aiTable' # aiTable \/ aiStore' # aiStore) =>
                 \E c \in Slots : cyc[c].pc = "persist" /\ cyc'[c].pc # "persist"
          /\ notifyQueue' # notifyQueue =>
                 \E c \in Slots : cyc[c].pc = "notify" /\ cyc'[c].pc = "idle"]_vars
    /\ [](/\ Len(dispatchLog) <= sched.started
          /\ Cardinality(aiTable) <= sched.started
          /\ AnalysisKeys <= sched.started
          /\ Len(notifyQueue) <= sched.started)

\* the newest snapshot is abnormal both in error rate and in latency, and the
\* one cycle begun has dispatched one analysis, stored one record and
\* enqueued one notification
C30_Witness ==
    /\ sched.started = 1
    /\ cyc[1].outcome = "complete"
    /\ Len(dispatchLog) = 1 /\ Cardinality(aiTable) = 1 /\ AnalysisKeys = 1
    /\ Len(notifyQueue) = 1
    /\ LET historical == getRecentSummaries(aggStore, HISTORICAL_WINDOWS, "ok", now)
           previous == SubSeq(historical, 1, Len(historical) - 1)
           current == historical[Len(historical)]
       IN  /\ Len(historical) >= 3
           /\ detectErrorRateAnomaly(previous, current).isAnomaly
           /\ detectLatencyAnomaly(previous, current).isAnomaly

-----------------------------------------------------------------------------
(* The length guard of the cycle against the precondition of the detectors *)

\* cycle c passed the guard on the number of snapshots it loaded
PassedGuard(c) == cyc[c].loaded >= 3 /\ cyc[c].outcome # "noHistory"

\* C31: every detection cycle that passed its guard of at least 3 loaded
\* snapshots handed detectAnomalies a history (the snapshots loaded except
\* the newest) of at least 3 snapshots, and a
\* cycle whose newest snapshot is abnormal against the ones before it did not
\* end without an anomaly.
C31_GuardMeetsPrecondition ==
    \A c \in Slots :
        PassedGuard(c) =>
            /\ cyc[c].loaded - 1 >= 3
            /\ LET historical == getRecentSummaries(aggStore, HISTORICAL_WINDOWS, "ok", now)
               IN  (/\ Len(historical) = cyc[c].loaded
                    /\ ProfileOf(historical[Len(historical)]) = "errors"
                    /\ \A i \in 1..(Len(historical) - 1) :
                           ProfileOf(historical[i]) = "normal")
                       => cyc[c].outcome # "noAnomaly"

-----------------------------------------------------------------------------
(* A persistent anomaly: every cycle detects it and every call returns *)

\* the newest snapshot shows the error profile against a steady baseline, and
\* at least one provider is configured
PersistentInit ==
    /\ env \in {e \in [groq : BOOLEAN, openai : BOOLEAN, notifyUrl : BOOLEAN] :
                   e.groq \/ e.openai}
    /\ \E n \in {HISTORICAL_WINDOWS - 1, HISTORICAL_WINDOWS} :
          Started(Epoch, StoreAfter(n, "errors"))

PersistentNext ==
    \/ Tick
    \/ RunStartupCycle
    \/ IntervalFire
    \/ \E c \in Slots : Returns(c)

\* time passes, the timer callback runs when it is due and every call a
\* cycle awaits returns
PersistentSpec ==
    /\ PersistentInit
    /\ [][PersistentNext]_vars
    /\ WF_vars(Tick)
    /\ WF_vars(RunStartupCycle)
    /\ WF_vars(IntervalFire)
    /\ \A c \in Slots : WF_vars(Returns(c))

\* cycles that passed the cooldown check and have not reached markAsAnalyzed
Dispatching == {c \in Slots : cyc[c].pc \in {"context", "analyze", "persist"}}

\* the first timer fire at which the entry of key k is a full cooldown window old
FireAfterCooldown(k) ==
    LET fire(m) == sched.nextFire + m * IntervalTicks
        m == CHOOSE x \in 0..(CooldownTicks + MaxTime) :
                 /\ fire(x) >= lastMark[k] + CooldownTicks
                 /\ \A y \in 0..(x - 1) : fire(y) < lastMark[k] + CooldownTicks
    IN  [time |-> fire(m), starts |-> sched.started + m + 1]

\* the timer fire that follows the cooldown window of key k lies within the
\* time and the cycles observed
CooldownEndsInWindow(k) ==
    /\ sched.phase = "interval"
    /\ k \in DOMAIN lastMark
    /\ FireAfterCooldown(k).time <= Epoch + MaxTime
    /\ FireAfterCooldown(k).starts <= MaxStarts

\* the analyses of key k dispatched so far
DispatchesOf(k) == {i \in DOMAIN dispatchLog : dispatchLog[i].key = k}

\* a cycle dispatched an analysis of key k a cooldown window or more after
\* the latest mark of the key
DispatchedAfterCooldown(k) ==
    /\ k \in DOMAIN lastMark
    /\ \E i \in DispatchesOf(k) : dispatchLog[i].at >= lastMark[k] + CooldownTicks

\* C32: while every cycle detects the same anomaly and every call returns,
\* an anomaly that was analysed and marked is analysed again: once the entry of
\* its key is a cooldown window old, a later cycle dispatches a further
\* analysis of the key, at a time at least the window after the mark.
C32_NotSuppressedForever ==
    \A k \in {"error_rate:medium"} :
        (Dispatching = {} /\ CooldownEndsInWindow(k) /\ DispatchesOf(k) # {})
            ~> DispatchedAfterCooldown(k)

\* the anomaly was analysed, a later cycle was suppressed, and a cycle after
\* the cooldown window dispatched a second analysis of the same key
C32_Witness ==
    /\ Len(dispatchLog) >= 2
    /\ dispatchLog[1].key = dispatchLog[2].key
    /\ dispatchLog[2].at >= dispatchLog[1].at + CooldownTicks
    /\ \E c \in Slots : cyc[c].outcome = "suppressed"

-----------------------------------------------------------------------------
(* A detection cycle whose awaited call never returns *)

\* time passes and the timer callback runs when it is due; a call a cycle
\* awaits returns or hangs
StallSpec ==
    /\ PersistentInit
    /\ [][PersistentNext]_vars
    /\ WF_vars(Tick)
    /\ WF_vars(RunStartupCycle)
    /\ WF_vars(IntervalFire)

\* the cycles in flight
InFlight == {c \in Slots : cyc[c].pc # "idle"}

\* one detection interval from now, or the next timer fire once the timer is
\* installed, lies within the time observed
NextTickInWindow ==
    (IF sched.phase = "interval" THEN sched.nextFire ELSE now + IntervalTicks)
        <= Epoch + MaxTime

\* C33 for the cycles the interval timer started: while one of them is in
\* flight, returning or not, the next timer fire starts a new cycle.
C33_TimerCycleStallsOnlyItself ==
    \A k \in 1..(MaxStarts - 1) :
        (/\ sched.phase = "interval" /\ sched.started = k
         /\ InFlight # {} /\ FreeSlots # {} /\ NextTickInWindow)
            ~> (sched.started > k)

\* the timer is installed and its next fire lies beyond the time observed
NextTickBeyondWindow == sched.phase = "interval" /\ ~NextTickInWindow

\* C33: while a detection cycle is in flight, whether it returns or not and
\* whether the timer or the startup of the service began it, the next
\* detection tick starts a new cycle.
C33_HangDelaysOnlyItself ==
    \A k \in 1..(MaxStarts - 1) :
        (/\ sched.started = k
         /\ InFlight # {} /\ FreeSlots # {} /\ NextTickInWindow)
            ~> (sched.started > k \/ NextTickBeyondWindow)

-----------------------------------------------------------------------------
(* aggregated:latest against the newest aggregated:<timestamp> key *)

\* the snapshot under the newest timestamp key that has not expired at time
\* t, as a list of at most one value
NewestSnapshot(store, t) ==
    LET keys == NewestKeys(LiveKeys(store, t), 1)
    IN  IF keys = {} THEN <<>> ELSE <<store.byTime[CHOOSE k \in keys : TRUE].data>>

\* C34: whenever no aggregation cycle is running, whether the last one
\* completed or failed, a reader finds under aggregated:latest the snapshot
\* that the newest aggregated:<timestamp> key holds.
C34_LatestIsNewestKey ==
    agg.pc = "idle" => GetLatest(aggStore, now) = NewestSnapshot(aggStore, now)

-----------------------------------------------------------------------------
(* The request-volume baseline *)

\* the total request volume of every history snapshot, one sample each
VolumePerSnapshot(hist) == [i \in 1..Len(hist) |-> RInt(hist[i].requestVolume.total)]

\* C36: the baseline detectVolumeAnomaly computes its mean and deviation from
\* holds one sample per history snapshot, the total request volume of that
\* snapshot, also for snapshots whose total is 0.
C36_VolumeBaselinePerSnapshot ==
    (detected.done /\ Len(historicalSummaries) >= 3) =>
        HistVolumes(historicalSummaries) = VolumePerSnapshot(historicalSummaries)

-----------------------------------------------------------------------------
(* The cooldown table: what a mark keeps *)

\* the keys marked in this step
MarkedNow == {k \in DOMAIN lastMark' : k \notin DOMAIN lastMark \/ lastMark'[k] # lastMark[k]}

\* C35: a call of markAsAnalyzed keeps, with its time, every entry that
\* wasAnalyzedRecently still answers true for, and every entry whose age is the
\* cooldown window exactly; the key it was called with is in the table when it
\* returns; and wasAnalyzedRecently answers false for an entry whose age is
\* the window exactly.
C35_MarkKeepsLiveEntries ==
    /\ [][MarkedNow # {} =>
              /\ \A k \in DOMAIN recentAnomalies \ MarkedNow :
                    (\/ wasAnalyzedRecently(recentAnomalies, k, now)
                     \/ now - recentAnomalies[k] = CooldownTicks)
                        => /\ k \in DOMAIN recentAnomalies'
                           /\ recentAnomalies'[k] = recentAnomalies[k]
              /\ MarkedNow \subseteq DOMAIN recentAnomalies']_vars
    /\ [](\A k \in DOMAIN recentAnomalies :
              now - recentAnomalies[k] = CooldownTicks
                  => ~wasAnalyzedRecently(recentAnomalies, k, now))

\* one key was marked a cooldown window ago and another one now; the older
\* entry is still in the table and wasAnalyzedRecently answered false for it
C35_Witness ==
    \E k \in DOMAIN recentAnomalies : \E j \in DOMAIN recentAnomalies :
        /\ recentAnomalies[j] = now
        /\ now - recentAnomalies[k] = CooldownTicks
        /\ detected.done /\ detected.key = k /\ ~detected.recent

-----------------------------------------------------------------------------
(* logs-service, metrics-service, trace-service: the SQS consumers *)

ConsumerServices == {"logs", "metrics", "trace"}

\* the MessageAttributes.type each service takes for its own
OwnType == [logs |-> "log", metrics |-> "metric", trace |-> "trace"]

\* A message body.  text: "invalid" is not JSON, "direct" is the record
\* itself, "sns" is an SNS notification whose Message holds the record and
\* "snsInvalid" one whose Message is not JSON.  type: MessageAttributes.type
\* of the notification, "" when absent.  fields: the properties of the record
\* that are truthy (duration: that are a number).
Body(text, type, fields) == [text |-> text, type |-> type, fields |-> fields]

MessageBodies ==
    [ garbage     |-> Body("invalid", "", {}),
      badInner    |-> Body("snsInvalid", "", {}),
      log         |-> Body("direct", "", {"timestamp", "level", "message", "service"}),
      logSns      |-> Body("sns", "log", {"level", "message"}),
      levelOnly   |-> Body("direct", "", {"timestamp", "level", "service"}),
      metric      |-> Body("sns", "metric", {"timestamp", "service", "metrics"}),
      noService   |-> Body("direct", "", {"metrics", "traceId", "operation", "duration"}),
      trace       |-> Body("sns", "trace",
                           {"traceId", "service", "operation", "startTime", "duration"}),
      noDuration  |-> Body("direct", "", {"traceId", "service", "operation"}),
      mislabelled |-> Body("sns", "alert", {"level", "message", "metrics", "service",
                                            "traceId", "operation", "duration"}) ]

\* JSON.parse of the body, and of Message when the body is an SNS
\* notification, throws
ParseThrows(body) == body.text \in {"invalid", "snsInvalid"}

\* sqsMessage.MessageAttributes.type is there and is not the type given
OtherType(body, type) == body.type # "" /\ body.type # type

\* processLogMessage up to its await: "throw", "skip" (return false) or "save"
processLogMessage(body) ==
    IF ParseThrows(body) THEN "throw"
    ELSE IF OtherType(body, "log") THEN "skip"
    ELSE IF "level" \notin body.fields /\ "message" \notin body.fields THEN "skip"
    ELSE IF "message" \notin body.fields THEN "throw"
    ELSE "save"

\* processMetricMessage up to its await
processMetricMessage(body) ==
    IF ParseThrows(body) THEN "throw"
    ELSE IF OtherType(body, "metric") THEN "skip"
    ELSE IF "metrics" \notin body.fields THEN "skip"
    ELSE IF "service" \notin body.fields THEN "throw"
    ELSE "save"

\* processTraceMessage up to its await
processTraceMessage(body) ==
    IF ParseThrows(body) THEN "throw"
    ELSE IF OtherType(body, "trace") THEN "skip"
    ELSE IF "traceId" \notin body.fields THEN "skip"
    ELSE IF "service" \notin body.fields THEN "throw"
    ELSE IF "operation" \notin body.fields THEN "throw"
    ELSE IF "duration" \notin body.fields THEN "throw"
    ELSE "save"

\* what the service observed does with message m
Processed(m) ==
    LET body == MessageBodies[sqsQueue[m].body]
    IN  CASE consumer.service = "logs" -> processLogMessage(body)
          [] consumer.service = "metrics" -> processMetricMessage(body)
          [] consumer.service = "trace" -> processTraceMessage(body)

\* the for loop of pollSQS moves on to the messages left, or pollSQS returns
\* and the consumer loop calls it again
Continue(rest) ==
    consumer' = [consumer EXCEPT !.batch = rest,
                                 !.pc = IF rest = <<>> THEN "poll" ELSE "process"]

\* the catch block inside the loop deletes the message it could not process
Thrown_Deletes(m) ==
    /\ sqsQueue' = [sqsQueue EXCEPT ![m].state = "deleted"]
    /\ Continue(Tail(consumer.batch))

\* the catch block inside the loop: log; the message is left in flight
Thrown(m) ==
    /\ UNCHANGED sqsQueue
    /\ Continue(Tail(consumer.batch))

ConsumerFrame ==
    UNCHANGED <<now, env, aggStore, agg, sched, cyc, recentAnomalies, aiStore, aiTable,
                notifyQueue, alive, dispatchLog, lastMark, detVars>>

\* the messages in ascending order
RECURSIVE InOrder(_)
InOrder(S) ==
    IF S = {} THEN <<>>
    ELSE LET m == CHOOSE x \in S : \A y \in S : x <= y
         IN  <<m>> \o InOrder(S \ {m})

\* sqs.receiveMessage returns some of the visible messages, which are in
\* flight from then on; the deliveries of a message are counted up to
\* MaxReceives
ReceiveMessage ==
    /\ consumer.pc = "poll"
    /\ \E received \in SUBSET {m \in DOMAIN sqsQueue : sqsQueue[m].state = "visible"} :
          /\ received # {}
          /\ sqsQueue' = [m \in DOMAIN sqsQueue |->
                              IF m \in received
                              THEN [sqsQueue[m] EXCEPT
                                       !.state = "inflight",
                                       !.receives = IF @ < MaxReceives THEN @ + 1 ELSE @]
                              ELSE sqsQueue[m]]
          /\ consumer' = [consumer EXCEPT !.pc = "process", !.batch = InOrder(received)]
    /\ UNCHANGED <<rawTable, faults>>
    /\ ConsumerFrame

\* process<Kind>Message on the next message of the batch, with the INSERT of
\* save<Kind> succeeding or failing
ProcessMessage(database) ==
    /\ consumer.pc = "process"
    /\ IF database = "ok" THEN NoFault ELSE Fault
    /\ LET m == Head(consumer.batch)
       IN  CASE Processed(m) = "throw" ->
                    /\ database = "ok"
                    /\ Thrown(m)
                    /\ UNCHANGED rawTable
             [] Processed(m) = "skip" ->
                    /\ database = "ok"
                    /\ consumer' = [consumer EXCEPT !.pc = "delete"]
                    /\ UNCHANGED <<sqsQueue, rawTable>>
             [] Processed(m) = "save" /\ database = "ok" ->
                    /\ rawTable' = Append(rawTable, m)
                    /\ consumer' = [consumer EXCEPT !.pc = "delete"]
                    /\ UNCHANGED sqsQueue
             [] OTHER ->
                    /\ Thrown(m)
                    /\ UNCHANGED rawTable
    /\ ConsumerFrame

\* sqs.deleteMessage returns, or is rejected and throws into the catch block
DeleteMessage(deleted) ==
    /\ consumer.pc = "delete"
    /\ IF deleted THEN NoFault ELSE Fault
    /\ LET m == Head(consumer.batch)
       IN  IF deleted
           THEN /\ sqsQueue' = [sqsQueue EXCEPT ![m].state = "deleted"]
                /\ Continue(Tail(consumer.batch))
           ELSE Thrown(m)
    /\ UNCHANGED rawTable
    /\ ConsumerFrame

\* VisibilityTimeout: a message received and not deleted is visible again
VisibilityTimeout(m) ==
    /\ sqsQueue[m].state = "inflight"
    /\ \A i \in DOMAIN consumer.batch : consumer.batch[i] # m
    /\ sqsQueue' = [sqsQueue EXCEPT ![m].state = "visible"]
    /\ UNCHANGED <<rawTable, consumer, faults>>
    /\ ConsumerFrame

\* one of the three services on a queue of messages not yet received
ConsumerInit ==
    /\ env = [groq |-> TRUE, openai |-> TRUE, notifyUrl |-> TRUE]
    /\ now = Epoch
    /\ aggStore = EmptyStore
    /\ agg = AggIdle
    /\ sched = SchedIdle
    /\ cyc = [c \in Slots |-> IdleCycle]
    /\ recentAnomalies = <<>>
    /\ aiStore = EmptyStore
    /\ aiTable = {}
    /\ notifyQueue = <<>>
    /\ alive = [detector |-> TRUE, aggregator |-> TRUE]
    /\ dispatchLog = <<>>
    /\ lastMark = <<>>
    /\ faults = 0
    /\ historicalSummaries = <<>>
    /\ currentSummary = MakeSummary(0, <<>>)
    /\ detected = [done |-> FALSE]
    /\ \E bodies \in [1..MaxMessages -> DOMAIN MessageBodies] :
          sqsQueue = [m \in 1..MaxMessages |->
                         [body |-> bodies[m], state |-> "visible", receives |-> 0]]
    /\ rawTable = <<>>
    /\ \E service \in ConsumerServices :
          consumer = [service |-> service, pc |-> "poll", batch |-> <<>>]

ConsumerNext ==
    \/ ReceiveMessage
    \/ \E database \in {"ok", "fails"} : ProcessMessage(database)
    \/ \E deleted \in BOOLEAN : DeleteMessage(deleted)
    \/ \E m \in DOMAIN sqsQueue : VisibilityTimeout(m)

\* the consumer loop runs and every call returns or throws; the visibility
\* timeout of a message in flight runs out
ConsumerSpec ==
    /\ ConsumerInit
    /\ [][ConsumerNext]_vars
    /\ WF_vars(ReceiveMessage)
    /\ WF_vars(\E database \in {"ok", "fails"} : ProcessMessage(database))
    /\ WF_vars(\E deleted \in BOOLEAN : DeleteMessage(deleted))
    /\ \A m \in 1..MaxMessages : WF_vars(VisibilityTimeout(m))

-----------------------------------------------------------------------------
(* Properties of the consumers *)

\* the messages whose record was saved
SavedMessages == {rawTable[i] : i \in DOMAIN rawTable}

\* the step in which the loop of pollSQS leaves the message it was processing
\* through its catch block, before any deleteMessage was called for it
ProcessingThrew(m) ==
    /\ consumer.pc = "process"
    /\ Head(consumer.batch) = m
    /\ consumer'.pc # "delete"

\* message m was received and the loop is done with it
Handled(m) ==
    /\ sqsQueue[m].receives > 0
    /\ \A i \in DOMAIN consumer.batch : consumer.batch[i] # m

\* C37: in each of the three consumers a message is deleted only when its
\* record was saved before or when it is not of the service's type, and in
\* the latter case nothing was saved for it; a message whose parsing,
\* validation or save throws is left in the queue, nothing is saved for it in
\* that step, and once its visibility timeout ran out it is visible again.
C37_DeleteOnlyAfterSave ==
    /\ [](\A m \in DOMAIN sqsQueue :
              /\ sqsQueue[m].state = "deleted" =>
                    \/ Processed(m) = "save" /\ m \in SavedMessages
                    \/ Processed(m) = "skip"
              /\ Processed(m) # "save" => m \notin SavedMessages)
    /\ [][\A m \in DOMAIN sqsQueue :
              ProcessingThrew(m) => /\ sqsQueue'[m].state = "inflight"
                                    /\ rawTable' = rawTable]_vars
    /\ \A m \in 1..MaxMessages :
          (Handled(m) /\ sqsQueue[m].state = "inflight") ~> (sqsQueue[m].state = "visible")

\* one message was saved and then deleted, and another one, which makes the
\* service throw, was delivered a second time and is still in the queue
C37_Witness ==
    \E m \in DOMAIN sqsQueue : \E n \in DOMAIN sqsQueue :
        /\ Processed(m) = "save" /\ m \in SavedMessages /\ sqsQueue[m].state = "deleted"
        /\ Processed(n) = "throw" /\ sqsQueue[n].receives = 2 /\ Handled(n)
        /\ sqsQueue[n].state = "inflight"

-----------------------------------------------------------------------------
(* The logs service with the database and the queue available *)

LogsInit == ConsumerInit /\ consumer.service = "logs"

\* every INSERT and every deleteMessage succeeds
AvailableNext ==
    \/ ReceiveMessage
    \/ ProcessMessage("ok")
    \/ DeleteMessage(TRUE)
    \/ \E m \in DOMAIN sqsQueue : VisibilityTimeout(m)

AvailableSpec ==
    /\ LogsInit
    /\ [][AvailableNext]_vars
    /\ WF_vars(ReceiveMessage)
    /\ WF_vars(ProcessMessage("ok"))
    /\ WF_vars(DeleteMessage(TRUE))
    /\ \A m \in 1..MaxMessages : WF_vars(VisibilityTimeout(m))

\* C38 for the messages processLogMessage does not throw on: once received
\* they are deleted, after being saved or after being skipped.
C38_AcceptedMessagesAreDeleted ==
    \A m \in 1..MaxMessages :
        (sqsQueue[m].receives > 0 /\ Processed(m) # "throw")
            ~> (sqsQueue[m].state = "deleted")

\* C38: with the database and the queue available, every message the logs
\* service has received is deleted from the queue in the end.
C38_EveryMessageDeleted ==
    \A m \in 1..MaxMessages :
        (sqsQueue[m].receives > 0) ~> (sqsQueue[m].state = "deleted")

====
